---- MODULE Spec2Model ----
(***************************************************************************)
(* A model of the pattern-based query parser (agent/layers/query_parser.py)*)
(* and of the strategy-dispatched execution engine                         *)
(* (agent/layers/execution_engine.py).                                     *)
(*                                                                         *)
(* Python values are tagged records:                                       *)
(*   None            [t |-> "None"]                                        *)
(*   a number        [t |-> "num", n |-> Int]   (n counts hundredths)      *)
(*   a string        [t |-> "str", s |-> sequence of parts]                *)
(*   a list          [t |-> "list", items |-> sequence of values]          *)
(*   the weather dict [t |-> "dict", display, numeric, value]              *)
(* A string is a sequence of parts: a literal piece of text, the rendering *)
(* of a number, or a "${name}" reference.                                  *)
(***************************************************************************)
EXTENDS Integers, Sequences, FiniteSets, TLC

\* Bounds of the model.
MaxCustom == 1
MaxSteps == 2

VARIABLES
    patterns,             \* ExtensibleQueryParser.patterns
    initialized,          \* ExtensibleQueryParser.initialized (BaseLayer)
    registered,           \* how many QueryPattern objects were registered so far
    parse_in,             \* the last call of ExtensibleQueryParser.process: its arguments
    parse_out,            \* ... and the LayerResult it returned
    tool_adapters,        \* ExtensibleExecutionEngine.tool_adapters
    execution_strategies, \* ExtensibleExecutionEngine.execution_strategies
    variables,            \* ExtensibleExecutionEngine.variables
    engine_initialized,   \* ExtensibleExecutionEngine.initialized (BaseLayer)
    exec_in,              \* the last call of ExtensibleExecutionEngine.process
    exec_out,             \* ... its LayerResult and what it invoked
    subst_in,             \* the last call of _substitute_variables: its parameters
    subst_out,            \* ... and what it returned or raised
    llm,                  \* what the text generator behind llm_fallback does now
    query_in,             \* the last call of Orchestrator.process_query
    query_out,            \* ... its answer and what it invoked on the way
    runs                  \* the calls of MultiStepStrategy.execute in progress, by thread

parser_vars == <<patterns, initialized, registered, parse_in, parse_out>>
engine_vars == <<tool_adapters, execution_strategies, variables, engine_initialized,
                 exec_in, exec_out, subst_in, subst_out>>
orch_vars == <<llm, query_in, query_out>>
vars == <<patterns, initialized, registered, parse_in, parse_out,
          tool_adapters, execution_strategies, variables, engine_initialized,
          exec_in, exec_out, subst_in, subst_out, llm, query_in, query_out, runs>>

(***************************************************************************)
(* Python values                                                           *)
(***************************************************************************)
None == [t |-> "None"]
Num(n) == [t |-> "num", n |-> n]
Str(s) == [t |-> "str", s |-> s]
List(items) == [t |-> "list", items |-> items]

Lit(v) == [k |-> "lit", v |-> v]
Ref(v) == [k |-> "ref", v |-> v]
Digits(n) == [k |-> "digits", n |-> n]
SP == Lit(" ")

EmptyDict == [x \in {} |-> None]
DictSet(d, key, value) ==
    [x \in (DOMAIN d) \cup {key} |-> IF x = key THEN value ELSE d[x]]

LayerResult(data, metadata, success, error_message) ==
    [data |-> data, metadata |-> metadata, success |-> success,
     error_message |-> error_message]

ExecutionStep(tool, operation, parameters, description, step_variables) ==
    [tool |-> tool, operation |-> operation, parameters |-> parameters,
     description |-> description, variables |-> step_variables]

ExecutionPlan(type, steps, description) ==
    [type |-> type, steps |-> steps, description |-> description,
     confidence |-> 1]

QueryType == {"single_tool", "multi_step", "llm_required", "unknown"}

\* str.strip(): drop the leading and the trailing blanks
RECURSIVE LStrip(_)
LStrip(s) == IF s # <<>> /\ Head(s) = SP THEN LStrip(Tail(s)) ELSE s

RECURSIVE RStrip(_)
RStrip(s) ==
    IF s # <<>> /\ s[Len(s)] = SP THEN RStrip(SubSeq(s, 1, Len(s) - 1)) ELSE s

Strip(s) == RStrip(LStrip(s))

(***************************************************************************)
(* Recognizers (QueryPattern objects)                                      *)
(*                                                                         *)
(* A registered recognizer is [name, priority, reg]; reg numbers the       *)
(* objects in the order register_pattern received them.  The built-in      *)
(* classes behave on the fixture queries below as their regular            *)
(* expressions do; the custom classes are fixtures whose matches and parse *)
(* may do anything, raising included.                                     *)
(***************************************************************************)
QueryPattern(name, priority, reg) ==
    [name |-> name, priority |-> priority, reg |-> reg]

\* _register_default_patterns, in its order of registration
DefaultPatternClasses ==
    << [name |-> "component_based", priority |-> 60],
       [name |-> "calculator", priority |-> 10],
       [name |-> "weather", priority |-> 8],
       [name |-> "knowledge_base", priority |-> 6],
       [name |-> "currency", priority |-> 40],
       [name |-> "multi_step", priority |-> 50] >>

\* recognizer classes a caller registers; "custom_default" keeps the default
\* priority of QueryPattern.__init__
CustomPatternClasses ==
    { [name |-> "custom_high", priority |-> 60],
      [name |-> "custom_default", priority |-> 0] }

CustomNames == {c.name : c \in CustomPatternClasses}

\* the fixture queries (already lower case)
Q_WEATHER == Lit("what is the weather in paris?")
Q_ADDAVG == Lit("add 10 to the average temperature in paris and london right now.")
Q_GIBBERISH == Lit("gibberish xyz 123")
Queries == {Q_WEATHER, Q_ADDAVG, Q_GIBBERISH}

\* a query whose plan fails when it is executed, and a product as the prompt
\* cleaner writes it
Q_DIVIDE == Lit("divide 100 by 0")
Q_TIMES == Lit("3 * 4")

\* the same texts after the prompt cleaner, which capitalizes the first
\* letter, and the text of test_temperature_averaging_with_addition
T_WEATHER == Lit("What is the weather in paris?")
T_ADDAVG == Lit("Add 10 to the average temperature in paris and london right now.")
T_ADDAVG_TEST == Lit("Add 10 to the average temperature in Paris and London right now.")
T_GIBBERISH == Lit("Gibberish xyz 123")
T_DIVIDE == Lit("Divide 100 by 0")

\* str.lower() of a part of a text
LowerPart(part) ==
    CASE part = T_WEATHER -> Q_WEATHER
      [] part \in {T_ADDAVG, T_ADDAVG_TEST} -> Q_ADDAVG
      [] part = T_GIBBERISH -> Q_GIBBERISH
      [] part = T_DIVIDE -> Q_DIVIDE
      [] OTHER -> part

\* query.lower(), which every recognizer applies before it looks at the text
LowerQuery(query) == [i \in 1..Len(query) |-> LowerPart(query[i])]

Words(ws) == [i \in 1..Len(ws) |-> Lit(ws[i])]
Text(ws) == Str(Words(ws))
Param(key, value) == [key |-> key, value |-> value]
ResultVar(name) == [x \in {"result_var"} |-> name]

\* WeatherPattern.parse, 'simple_weather': the city is the rest of the text
WeatherPlan(city) ==
    ExecutionPlan("single_tool",
        << ExecutionStep("weather", "get_weather",
               << Param("city", Text(<<city>>)) >>,
               Words(<<"Get", "weather", "for", city>>), EmptyDict) >>,
        Words(<<"Get", "weather", "for", city>>))

\* KnowledgeBasePattern.parse, 'what_is'
KnowledgePlan(subject) ==
    ExecutionPlan("single_tool",
        << ExecutionStep("knowledge_base", "kb_lookup",
               << Param("query", Text(<<subject>>)) >>,
               Words(<<"Look", "up", "information", "about", subject>>), EmptyDict) >>,
        Words(<<"Look", "up", "information", "about", subject>>))

\* CalculatorPattern.parse, 'divide X by Y'
DividePlan(x, y) ==
    ExecutionPlan("single_tool",
        << ExecutionStep("calculator", "divide",
               << Param("first_number", Num(x)), Param("second_number", Num(y)) >>,
               Words(<<"Divide", "100.0", "by", "0.0">>), EmptyDict) >>,
        Words(<<"Divide", "100.0", "by", "0.0">>))

\* CalculatorPattern.parse, 'X * Y'
MultiplyPlan(x, y) ==
    ExecutionPlan("single_tool",
        << ExecutionStep("calculator", "multiply",
               << Param("first_number", Num(x)), Param("second_number", Num(y)) >>,
               Words(<<"Calculate", "3.0", "*", "4.0">>), EmptyDict) >>,
        Words(<<"Calculate", "3.0", "*", "4.0">>))

\* the four steps of "add N to the average temperature in A and B"; the two
\* recognizers that emit them differ only in the name of the third binding
AddToAverageSteps(avg_var, amount, city1, city2) ==
    << ExecutionStep("weather", "get_weather",
           << Param("city", Text(<<city1>>)) >>,
           Words(<<"Get", "temperature", "in", city1>>), ResultVar("temp1")),
       ExecutionStep("weather", "get_weather",
           << Param("city", Text(<<city2>>)) >>,
           Words(<<"Get", "temperature", "in", city2>>), ResultVar("temp2")),
       ExecutionStep("calculator", "average",
           << Param("numbers", List(<<Str(<<Ref("temp1")>>), Str(<<Ref("temp2")>>)>>)) >>,
           Words(<<"Calculate", "average", "of", "temperatures">>), ResultVar(avg_var)),
       ExecutionStep("calculator", "add",
           << Param("first_number", Str(<<Ref(avg_var)>>)),
              Param("second_number", Num(amount)) >>,
           Words(<<"Add", "10.0", "to", "average", "temperature">>), EmptyDict) >>

AddToAverageDescription(city1, city2) ==
    Words(<<"Add", "10.0", "to", "average", "temperature", "in", city1, "and", city2>>)

\* ComponentBasedQueryParser.parse, the "add" and "average temperature" branch
ComponentAddToAveragePlan ==
    ExecutionPlan("multi_step",
        AddToAverageSteps("avg_temp", 1000, "paris", "london"),
        AddToAverageDescription("paris", "london"))

\* MultiStepPattern.parse, 'math_avg_temp'
MultiStepAddToAveragePlan ==
    ExecutionPlan("multi_step",
        AddToAverageSteps("avg", 1000, "paris", "london"),
        AddToAverageDescription("paris", "london"))

\* what a custom recognizer's parse returns: a plan that names its recognizer
CustomPlan(name) ==
    ExecutionPlan("single_tool",
        << ExecutionStep("calculator", "add",
               << Param("first_number", Num(100)), Param("second_number", Num(200)) >>,
               Words(<<name>>), EmptyDict) >>,
        Words(<<name>>))

Behaviours == {"no_match", "matches_raises", "parse_raises", "ok"}

\* QueryPattern.matches: "true", "false" or "raise".  beh gives the behaviour
\* of the custom recognizers in this call.
Matches(p, query, beh) ==
    IF p.name \in CustomNames
    THEN CASE beh[p.name] = "no_match" -> "false"
           [] beh[p.name] = "matches_raises" -> "raise"
           [] OTHER -> "true"
    ELSE CASE p.name = "component_based" ->
                IF LowerQuery(query) \in {<<Q_WEATHER>>, <<Q_ADDAVG>>, <<Q_TIMES>>}
                THEN "true" ELSE "false"
           [] p.name = "multi_step" ->
                IF LowerQuery(query) = <<Q_ADDAVG>> THEN "true" ELSE "false"
           [] p.name = "weather" ->
                IF LowerQuery(query) \in {<<Q_WEATHER>>, <<Q_ADDAVG>>} THEN "true" ELSE "false"
           [] p.name = "calculator" ->
                IF LowerQuery(query) \in {<<Q_DIVIDE>>, <<Q_TIMES>>} THEN "true" ELSE "false"
           [] p.name = "knowledge_base" ->
                IF LowerQuery(query) = <<Q_WEATHER>> THEN "true" ELSE "false"
           [] OTHER -> "false"

Raised(message) == [raised |-> TRUE, message |-> message]
Returned(value) == [raised |-> FALSE, value |-> value]

\* QueryPattern.parse: the plan, or the exception it raises
Parse(p, query, beh) ==
    IF p.name \in CustomNames
    THEN IF beh[p.name] = "ok"
         THEN Returned(CustomPlan(p.name))
         ELSE Raised(Words(<<"parse failed in", p.name>>))
    ELSE CASE p.name = "component_based" /\ LowerQuery(query) = <<Q_ADDAVG>> ->
                Returned(ComponentAddToAveragePlan)
           [] p.name = "component_based" /\ LowerQuery(query) # <<Q_ADDAVG>> ->
                Raised(Words(<<"No matching component pattern for: ">>) \o query)
           [] p.name = "multi_step" /\ LowerQuery(query) = <<Q_ADDAVG>> ->
                Returned(MultiStepAddToAveragePlan)
           [] p.name = "weather" /\ LowerQuery(query) = <<Q_WEATHER>> ->
                Returned(WeatherPlan("paris"))
           [] p.name = "weather" /\ LowerQuery(query) = <<Q_ADDAVG>> ->
                Returned(WeatherPlan("paris and london right now"))
           [] p.name = "calculator" /\ LowerQuery(query) = <<Q_DIVIDE>> ->
                Returned(DividePlan(10000, 0))
           [] p.name = "calculator" /\ LowerQuery(query) = <<Q_TIMES>> ->
                Returned(MultiplyPlan(300, 400))
           [] p.name = "knowledge_base" /\ LowerQuery(query) = <<Q_WEATHER>> ->
                Returned(KnowledgePlan("the weather in paris"))
           [] OTHER ->
                Raised(Words(<<"No matching pattern for: ">>) \o query)


(***************************************************************************)
(* ExtensibleQueryParser                                                   *)
(***************************************************************************)
\* list.sort(key=priority, reverse=True): a stable sort, so recognizers of
\* equal priority keep the order they had.  Insert(sorted, p) puts p behind
\* every element whose priority is not lower.
\* a sort that is not stable: p goes in front of its equals
RECURSIVE InsertBeforeEqual(_, _)
InsertBeforeEqual(sorted, p) ==
    IF sorted = <<>> THEN <<p>>
    ELSE IF Head(sorted).priority > p.priority
         THEN <<Head(sorted)>> \o InsertBeforeEqual(Tail(sorted), p)
         ELSE <<p>> \o sorted

RECURSIVE Insert(_, _)
Insert(sorted, p) ==
    IF sorted = <<>> THEN <<p>>
    ELSE IF Head(sorted).priority >= p.priority
         THEN <<Head(sorted)>> \o Insert(Tail(sorted), p)
         ELSE <<p>> \o sorted

RECURSIVE SortByPriority(_)
SortByPriority(list) ==
    IF list = <<>> THEN <<>>
    ELSE Insert(SortByPriority(SubSeq(list, 1, Len(list) - 1)), list[Len(list)])

\* register_pattern without the sort: recognizers stay in registration order
AppendOnly(list, p) == Append(list, p)

\* register_pattern: append, then sort
RegisterInto(list, p) == SortByPriority(Append(list, p))

\* registering the objects of the classes cs one after the other, the first
\* of them being object number reg + 1
RECURSIVE RegisterAll(_, _, _)
RegisterAll(list, cs, reg) ==
    IF cs = <<>> THEN list
    ELSE RegisterAll(RegisterInto(list, QueryPattern(cs[1].name, cs[1].priority, reg + 1)),
                     Tail(cs), reg + 1)

\* a fallback plan without its step
CreateFallbackPlanNoStep(query) ==
    ExecutionPlan("llm_required", <<>>, Words(<<"LLM fallback for: ">>) \o query)

\* _create_fallback_plan
CreateFallbackPlan(query) ==
    ExecutionPlan("llm_required",
        << ExecutionStep("llm", "llm_fallback",
               << Param("prompt", Str(query)) >>,
               Words(<<"Process", "with", "LLM", "fallback">>), EmptyDict) >>,
        Words(<<"LLM fallback for: ">>) \o query)

NoMatch == "<no matched_pattern>"
Tried(name, failed) == [name |-> name, failed |-> failed]

\* the loop without its inner try/except: what a recognizer raises reaches
\* the outer handler of process
RECURSIVE TryPatternsNoCatch(_, _, _, _, _)
TryPatternsNoCatch(list, i, query, beh, tried) ==
    IF i > Len(list)
    THEN LayerResult(CreateFallbackPlan(query),
             [original_query |-> query, patterns_tried |-> tried,
              matched_pattern |-> "fallback"], TRUE, None)
    ELSE LET p == list[i]
             m == Matches(p, query, beh)
         IN  IF m = "raise"
             THEN LayerResult(None, None, FALSE, Words(<<"Query parsing failed: ">>))
             ELSE IF m = "false"
             THEN TryPatternsNoCatch(list, i + 1, query, beh, tried)
             ELSE LET r == Parse(p, query, beh)
                  IN  IF r.raised
                      THEN LayerResult(None, None, FALSE,
                               Words(<<"Query parsing failed: ">>) \o r.message)
                      ELSE LayerResult(r.value,
                               [original_query |-> query,
                                patterns_tried |-> Append(tried, Tried(p.name, FALSE)),
                                matched_pattern |-> p.name], TRUE, None)

\* the loop with break in the place of continue: the first recognizer whose
\* parse raises ends the search
RECURSIVE TryPatternsStopAtFailure(_, _, _, _, _)
TryPatternsStopAtFailure(list, i, query, beh, tried) ==
    IF i > Len(list)
    THEN LayerResult(CreateFallbackPlan(query),
             [original_query |-> query, patterns_tried |-> tried,
              matched_pattern |-> "fallback"], TRUE, None)
    ELSE LET p == list[i]
             m == Matches(p, query, beh)
         IN  IF m = "raise"
             THEN TryPatternsStopAtFailure(list, i + 1, query, beh,
                      Append(tried, Tried(p.name, TRUE)))
             ELSE IF m = "false"
             THEN TryPatternsStopAtFailure(list, i + 1, query, beh, tried)
             ELSE LET r == Parse(p, query, beh)
                  IN  IF r.raised
                      THEN TryPatternsStopAtFailure(list, Len(list) + 1, query, beh,
                               Append(tried, Tried(p.name, TRUE)))
                      ELSE LayerResult(r.value,
                               [original_query |-> query,
                                patterns_tried |-> Append(tried, Tried(p.name, FALSE)),
                                matched_pattern |-> p.name], TRUE, None)

\* the loop of process over self.patterns, from position i on
RECURSIVE TryPatterns(_, _, _, _, _)
TryPatterns(list, i, query, beh, tried) ==
    IF i > Len(list)
    THEN LayerResult(CreateFallbackPlan(query),
             [original_query |-> query, patterns_tried |-> tried,
              matched_pattern |-> "fallback"], TRUE, None)
    ELSE LET p == list[i]
             m == Matches(p, query, beh)
         IN  IF m = "raise"
             THEN TryPatterns(list, i + 1, query, beh, Append(tried, Tried(p.name, TRUE)))
             ELSE IF m = "false"
             THEN TryPatterns(list, i + 1, query, beh, tried)
             ELSE LET r == Parse(p, query, beh)
                  IN  IF r.raised
                      THEN TryPatterns(list, i + 1, query, beh,
                               Append(tried, Tried(p.name, TRUE)))
                      ELSE LayerResult(r.value,
                               [original_query |-> query,
                                patterns_tried |-> Append(tried, Tried(p.name, FALSE)),
                                matched_pattern |-> p.name], TRUE, None)

\* ExtensibleQueryParser.process
ParserProcess(list, input_data, beh) ==
    IF input_data.t # "str"
    THEN LayerResult(None, None, FALSE, Words(<<"Expected string input">>))
    ELSE LET query == Strip(input_data.s)
         IN  IF query = <<>>
             THEN LayerResult(None, None, FALSE, Words(<<"Empty query provided">>))
             ELSE TryPatterns(list, 1, query, beh, <<>>)


(***************************************************************************)
(* Tools (agent/tools) and their adapters                                  *)
(*                                                                         *)
(* A tool function returns Returned(value) or Raised(message).  Numbers    *)
(* count hundredths: 18.0 is 1800.  The tools are modelled as they behave  *)
(* without WEATHER_API_KEY, EXCHANGE_API_KEY and OPENAI_API_KEY, on their  *)
(* built-in tables.                                                        *)
(***************************************************************************)
IntDigits(n) == [k |-> "intdigits", n |-> n]
DEGREES == Lit("°C")

Keys(params) == {params[i].key : i \in 1..Len(params)}
Arg(params, key) == params[CHOOSE i \in 1..Len(params) : params[i].key = key].value

RECURSIVE SumOf(_)
SumOf(items) == IF items = <<>> THEN 0 ELSE Head(items).n + SumOf(Tail(items))

TypeError == Words(<<"TypeError">>)

\* the functions of agent/tools/calculator.py that plans call, as **params
\* calls them
Calculator(operation, params) ==
    CASE operation = "average" ->
            IF Keys(params) # {"numbers"} THEN Raised(TypeError)
            ELSE LET numbers == Arg(params, "numbers")
                 IN  IF numbers.t = "list" /\ numbers.items = <<>>
                     THEN Raised(Words(<<"Cannot calculate average of empty list">>))
                     ELSE IF numbers.t = "list"
                             /\ \A i \in 1..Len(numbers.items) : numbers.items[i].t = "num"
                     THEN Returned(Num(SumOf(numbers.items) \div Len(numbers.items)))
                     ELSE Raised(TypeError)
      [] operation \in {"add", "subtract", "multiply", "divide"} ->
            IF Keys(params) # {"first_number", "second_number"} THEN Raised(TypeError)
            ELSE LET a == Arg(params, "first_number")
                     b == Arg(params, "second_number")
                 IN  IF a.t = "num" /\ b.t = "num"
                     THEN CASE operation = "add" -> Returned(Num(a.n + b.n))
                            [] operation = "subtract" -> Returned(Num(a.n - b.n))
                            [] operation = "multiply" -> Returned(Num((a.n * b.n) \div 100))
                            [] operation = "divide" ->
                                 IF b.n = 0 THEN Raised(Words(<<"Cannot divide by zero">>))
                                 ELSE Returned(Num((a.n * 100) \div b.n))
                     ELSE IF operation = "add" /\ a.t = "str" /\ b.t = "str"
                     THEN Returned(Str(a.s \o b.s))
                     ELSE Raised(TypeError)
      [] operation = "percent_of" ->
            IF Keys(params) # {"percentage", "number"} THEN Raised(TypeError)
            ELSE LET a == Arg(params, "percentage")
                     b == Arg(params, "number")
                 IN  IF a.t = "num" /\ b.t = "num"
                     THEN Returned(Num((a.n * b.n) \div 10000))
                     ELSE Raised(TypeError)
      [] OTHER -> Raised(TypeError)

\* _FALLBACK_TEMPERATURES, the entries the fixture plans ask for
FallbackTemperatures == [paris |-> 1800, london |-> 1700]

\* weather.get_weather
GetWeather(params) ==
    IF Keys(params) # {"city"} THEN Raised(TypeError)
    ELSE LET city == Arg(params, "city")
         IN  IF city.t # "str" THEN Raised(Words(<<"City must be a string">>))
             ELSE LET name == Strip(city.s)
                  IN  IF name = <<>> THEN Raised(Words(<<"City name cannot be empty">>))
                      ELSE IF /\ Len(name) = 1
                              /\ name[1].k = "lit"
                              /\ name[1].v \in DOMAIN FallbackTemperatures
                      THEN LET temp == FallbackTemperatures[name[1].v]
                           IN  Returned(Str(<< IF temp % 100 = 0 THEN IntDigits(temp)
                                                                 ELSE Digits(temp),
                                               DEGREES >>))
                      ELSE Raised(<<Lit("City '")>> \o name
                                      \o <<Lit("' not found in weather database.")>>)

\* llm.llm_fallback, which answers with a placeholder when no LLM is reachable;
\* the prompts of the model are shorter than the 60 characters it previews
LlmFallback(prompt) ==
    IF prompt.t # "str"
    THEN Text(<<"Generated Answer for: [Invalid prompt type]">>)
    ELSE IF Strip(prompt.s) = <<>>
    THEN Text(<<"Generated Answer for: [Empty prompt]">>)
    ELSE Str(<<Lit("Generated Answer for: ")>> \o prompt.s)

\* what the text generator does when llm_fallback reaches for it: it is out of
\* reach (no API key), it answers, or it fails with an error that llm_fallback
\* does not catch and its callers do
LlmModes == {"unavailable", "answers", "raises"}

\* llm_fallback(prompt) as its callers see it: a value or an exception
LlmCall(prompt) ==
    IF prompt.t # "str" \/ Strip(prompt.s) = <<>>
    THEN Returned(LlmFallback(prompt))
    ELSE CASE llm = "raises" -> Raised(Words(<<"text generation failed">>))
           [] llm = "answers" -> Returned(Str(<<Lit("LLM answer to: ")>> \o prompt.s))
           [] OTHER -> Returned(LlmFallback(prompt))

\* knowledge_base.kb_lookup on a knowledge base that knows Ada Lovelace
KbLookup(params) ==
    IF Keys(params) # {"query"} THEN Raised(TypeError)
    ELSE LET query == Arg(params, "query")
         IN  IF query.t # "str" THEN Raised(Words(<<"Query must be a string">>))
             ELSE IF Strip(query.s) = <<>> THEN Raised(Words(<<"Query cannot be empty">>))
             ELSE IF Strip(query.s) = Words(<<"ada lovelace">>)
             THEN Returned(Text(<<"Ada Lovelace was a 19th-century mathematician">>))
             ELSE Raised(<<Lit("No entry found for '")>> \o query.s \o <<Lit("'.")>>)

\* _EXCHANGE_RATES, the entries the fixture plans ask for
ExchangeRates == [USD |-> 100, EUR |-> 85]

\* currency.currency_convert
CurrencyConvert(params) ==
    IF Keys(params) # {"amount", "from_currency", "to_currency"} THEN Raised(TypeError)
    ELSE LET amount == Arg(params, "amount")
             from == Arg(params, "from_currency")
             to == Arg(params, "to_currency")
         IN  IF amount.t # "num" THEN Raised(Words(<<"Amount must be a number">>))
             ELSE IF amount.n < 0 THEN Raised(Words(<<"Amount cannot be negative">>))
             ELSE IF from.t # "str" \/ to.t # "str"
             THEN Raised(Words(<<"Currency codes must be strings">>))
             ELSE IF \E c \in {from, to} :
                        ~(Len(c.s) = 1 /\ c.s[1].k = "lit" /\ c.s[1].v \in DOMAIN ExchangeRates)
             THEN Raised(Words(<<"Unsupported currency">>))
             ELSE Returned(Num((amount.n * ExchangeRates[to.s[1].v])
                                   \div ExchangeRates[from.s[1].v]))

\* float(result.replace("°C", ""))
ParseFloat(s) ==
    LET rest == SelectSeq(s, LAMBDA part : part # DEGREES)
    IN  IF Len(rest) = 1 /\ rest[1].k \in {"digits", "intdigits"}
        THEN Returned(Num(rest[1].n))
        ELSE Raised(Words(<<"could not convert string to float">>))

ToolAdapter(class, operations) == [class |-> class, operations |-> operations]

\* _register_default_tools
DefaultToolAdapters ==
    [calculator |-> ToolAdapter("CalculatorToolAdapter",
         {"calculate", "add", "subtract", "multiply", "divide", "percent_of",
          "average", "power"}),
     weather |-> ToolAdapter("WeatherToolAdapter", {"get_weather"}),
     knowledge_base |-> ToolAdapter("StandardToolAdapter", {"kb_lookup"}),
     currency |-> ToolAdapter("StandardToolAdapter", {"currency_convert"}),
     llm |-> ToolAdapter("LLMToolAdapter", {"llm_fallback", "generate"})]

\* self.operations[operation](**params); "forecast" is a tool of
\* config["custom_tools"] whose adapter wraps weather.get_weather
ToolFunction(tool, operation, params) ==
    CASE tool = "calculator" -> Calculator(operation, params)
      [] tool \in {"weather", "forecast"} -> GetWeather(params)
      [] tool = "knowledge_base" -> KbLookup(params)
      [] tool = "currency" -> CurrencyConvert(params)
      [] tool = "llm" ->
            IF Keys(params) = {"prompt"}
            THEN LlmCall(Arg(params, "prompt"))
            ELSE Raised(TypeError)
      [] OTHER -> Raised(TypeError)

\* WeatherToolAdapter.execute_operation: a "...°C" string becomes a value
\* with a display and a numeric component
DualValue(display, numeric) ==
    IF numeric.raised THEN numeric
    ELSE Returned([t |-> "dict", display |-> display, numeric |-> numeric.value,
                   value |-> numeric.value])

WeatherResult(r) ==
    IF ~r.raised /\ r.value.t = "str" /\ \E i \in 1..Len(r.value.s) : r.value.s[i] = DEGREES
    THEN DualValue(r.value, ParseFloat(r.value.s))
    ELSE r

\* ToolAdapter.execute_operation of the four adapter classes
ExecuteOperation(adapter, tool, operation, params) ==
    IF operation \notin adapter.operations
    THEN Raised(<<Lit("Operation '"), Lit(operation), Lit("' not found in tool '"),
                  Lit(tool), Lit("'")>>)
    ELSE CASE adapter.class = "WeatherToolAdapter" ->
                WeatherResult(ToolFunction(tool, operation, params))
           [] adapter.class = "LLMToolAdapter" /\ operation = "llm_fallback" ->
                LlmCall(IF "prompt" \in Keys(params)
                        THEN Arg(params, "prompt") ELSE Str(<<>>))
           [] OTHER -> ToolFunction(tool, operation, params)

(***************************************************************************)
(* ExtensibleExecutionEngine (agent/layers/execution_engine.py)            *)
(*                                                                         *)
(* An execution outcome is a record: raised, the exception class and       *)
(* message when raised, the value otherwise, the scope (engine.variables)  *)
(* it leaves, the tool operations it invoked and the prompts it handed to  *)
(* llm_fallback directly, without going through a tool adapter.            *)
(***************************************************************************)
Outcome(raised, class, message, value, scope, calls, generated) ==
    [raised |-> raised, class |-> class, message |-> message, value |-> value,
     variables |-> scope, calls |-> calls, generated |-> generated]

Call(tool, operation, parameters) ==
    [tool |-> tool, operation |-> operation, parameters |-> parameters]

\* str(value)
PyStr(value) ==
    CASE value.t = "str" -> value.s
      [] value.t = "num" -> <<Digits(value.n)>>
      [] value.t = "None" -> <<Lit("None")>>
      [] value.t = "dict" -> <<Lit("{'display': ")>> \o value.display.s \o <<Lit(", ...}")>>
      [] OTHER -> <<Lit("[...]")>>

\* parameter names under which a weather reading is passed as its number
NumericKeys == {"numbers", "first_number", "second_number", "amount"}

IsDual(value) == value.t = "dict"

\* value.startswith("${") and value.endswith("}")
IsWholeReference(s) == s # <<>> /\ s[1].k = "ref" /\ s[Len(s)].k = "ref"

\* value[2:-1]
VarName(s) ==
    IF Len(s) = 1 THEN <<Lit(s[1].v)>>
    ELSE <<Lit(s[1].v), Lit("}")>> \o SubSeq(s, 2, Len(s) - 1)
             \o <<Lit("${"), Lit(s[Len(s)].v)>>

Bound(scope, name) == Len(name) = 1 /\ name[1].v \in DOMAIN scope

NotFound(name) == Raised(<<Lit("Variable '")>> \o name \o <<Lit("' not found")>>)

RECURSIVE ReplaceAll(_, _)
ReplaceAll(scope, s) ==
    IF s = <<>> THEN <<>>
    ELSE (IF Head(s).k = "ref"
          THEN LET var_value == scope[Head(s).v]
               IN  IF IsDual(var_value) THEN var_value.display.s ELSE PyStr(var_value)
          ELSE <<Head(s)>>) \o ReplaceAll(scope, Tail(s))

\* the value a list item stands for, as if a reading were handed over as its
\* display text
SubstituteItemDisplay(scope, item) ==
    IF item.t = "str" /\ IsWholeReference(item.s)
    THEN IF Bound(scope, VarName(item.s))
         THEN LET var_value == scope[item.s[1].v]
              IN  Returned(IF IsDual(var_value) THEN var_value.display ELSE var_value)
         ELSE NotFound(VarName(item.s))
    ELSE Returned(item)

\* the value a list item stands for
SubstituteItem(scope, item) ==
    IF item.t = "str" /\ IsWholeReference(item.s)
    THEN IF Bound(scope, VarName(item.s))
         THEN LET var_value == scope[item.s[1].v]
              IN  Returned(IF IsDual(var_value) THEN var_value.numeric ELSE var_value)
         ELSE NotFound(VarName(item.s))
    ELSE Returned(item)

\* first, then the rest, unless one of them raised; the first to raise wins
Cons(first, rest) ==
    IF first.raised THEN first
    ELSE IF rest.raised THEN rest
    ELSE Returned(<<first.value>> \o rest.value)

\* the list branch of _substitute_variables, item by item
RECURSIVE SubstituteItems(_, _)
SubstituteItems(scope, items) ==
    IF items = <<>> THEN Returned(<<>>)
    ELSE Cons(SubstituteItem(scope, Head(items)), SubstituteItems(scope, Tail(items)))

ListOf(items) == IF items.raised THEN items ELSE Returned(List(items.value))

\* the whole-reference branch, as it always hands the display component
ResolveWholeDisplayOnly(scope, key, s) ==
    IF Bound(scope, VarName(s))
    THEN LET var_value == scope[s[1].v]
         IN  Returned(IF IsDual(var_value) THEN var_value.display ELSE var_value)
    ELSE NotFound(VarName(s))

\* the whole-reference branch, as it leaves an unbound reference in place
ResolveWholeLenient(scope, key, s) ==
    IF Bound(scope, VarName(s))
    THEN LET var_value == scope[s[1].v]
         IN  Returned(IF IsDual(var_value)
                      THEN (IF key \in NumericKeys THEN var_value.numeric
                                                   ELSE var_value.display)
                      ELSE var_value)
    ELSE Returned(Str(s))

\* the whole-reference branch of _substitute_variables
ResolveWhole(scope, key, s) ==
    IF Bound(scope, VarName(s))
    THEN LET var_value == scope[s[1].v]
         IN  Returned(IF IsDual(var_value)
                      THEN (IF key \in NumericKeys THEN var_value.numeric
                                                   ELSE var_value.display)
                      ELSE var_value)
    ELSE NotFound(VarName(s))

\* the embedded-reference branch of _substitute_variables
ResolveEmbedded(scope, s) ==
    LET refs == SelectSeq(s, LAMBDA part : part.k = "ref")
        unbound == SelectSeq(refs, LAMBDA part : part.v \notin DOMAIN scope)
    IN  IF unbound # <<>> THEN NotFound(<<Lit(unbound[1].v)>>)
        ELSE Returned(Str(ReplaceAll(scope, s)))

\* one key, value pair of _substitute_variables
SubstituteValue(scope, key, value) ==
    IF value.t = "str"
    THEN IF IsWholeReference(value.s) THEN ResolveWhole(scope, key, value.s)
         ELSE IF \E i \in 1..Len(value.s) : value.s[i].k = "ref"
         THEN ResolveEmbedded(scope, value.s)
         ELSE Returned(value)
    ELSE IF value.t = "list" THEN ListOf(SubstituteItems(scope, value.items))
    ELSE Returned(value)

KeyOf(key, r) == IF r.raised THEN r ELSE Returned(Param(key, r.value))

\* _substitute_variables: the parameters with every reference resolved, or
\* the VariableSubstitutionError of the first reference that is not bound
RECURSIVE SubstituteVariables(_, _)
SubstituteVariables(scope, params) ==
    IF params = <<>> THEN Returned(<<>>)
    ELSE Cons(KeyOf(Head(params).key,
                    SubstituteValue(scope, Head(params).key, Head(params).value)),
              SubstituteVariables(scope, Tail(params)))

\* _execute_step, once the adapter has returned or raised
StepOutcome(scope, step, r) ==
    IF r.raised
    THEN Outcome(TRUE, "ExecutionError",
                 <<Lit("Error executing "), Lit(step.tool), Lit("."),
                   Lit(step.operation), Lit(": ")>> \o r.message,
                 None, scope, <<Call(step.tool, step.operation, step.parameters)>>, <<>>)
    ELSE Outcome(FALSE, "", <<>>, r.value, scope,
                 <<Call(step.tool, step.operation, step.parameters)>>, <<>>)

\* _execute_step
ExecuteStep(adapters, scope, step) ==
    IF step.tool \notin DOMAIN adapters
    THEN Outcome(TRUE, "ToolNotFoundError", <<Lit("Tool not found: "), Lit(step.tool)>>,
                 None, scope, <<>>, <<>>)
    ELSE IF step.operation \notin adapters[step.tool].operations
    THEN Outcome(TRUE, "ExecutionError",
                 <<Lit("Operation '"), Lit(step.operation), Lit("' not found in tool '"),
                   Lit(step.tool), Lit("'")>>,
                 None, scope, <<>>, <<>>)
    ELSE StepOutcome(scope, step,
                     ExecuteOperation(adapters[step.tool], step.tool, step.operation,
                                      step.parameters))

\* a formatting that looks at the shape of the result only
FormatResultByShape(result, tool) ==
    IF IsDual(result) THEN result.display ELSE Str(PyStr(result))

\* _format_result
FormatResult(result, tool) ==
    IF tool = "weather"
    THEN IF IsDual(result) THEN result.display ELSE Str(PyStr(result) \o <<DEGREES>>)
    ELSE Str(PyStr(result))

NoSteps(scope) ==
    Outcome(TRUE, "ExecutionError", Words(<<"No steps in execution plan">>), None,
            scope, <<>>, <<>>)

Formatted(r, tool) == IF r.raised THEN r ELSE [r EXCEPT !.value = FormatResult(r.value, tool)]

\* SingleToolStrategy.execute, as if it went on to the plan's second step
SingleToolExecuteSecondToo(adapters, scope, plan) ==
    IF plan.steps = <<>> THEN NoSteps(scope)
    ELSE IF Len(plan.steps) = 1 \/ ExecuteStep(adapters, scope, plan.steps[1]).raised
    THEN Formatted(ExecuteStep(adapters, scope, plan.steps[1]), plan.steps[1].tool)
    ELSE Formatted([ExecuteStep(adapters, scope, plan.steps[2]) EXCEPT
                        !.calls = ExecuteStep(adapters, scope, plan.steps[1]).calls \o @],
                   plan.steps[2].tool)

\* SingleToolStrategy.execute
SingleToolExecute(adapters, scope, plan) ==
    IF plan.steps = <<>> THEN NoSteps(scope)
    ELSE Formatted(ExecuteStep(adapters, scope, plan.steps[1]), plan.steps[1].tool)

\* str.lower() of the words that plan and step descriptions are made of
Lower(word) ==
    CASE word = "Weather" -> "weather"
      [] word = "Temperature" -> "temperature"
      [] OTHER -> word

\* needle in text.lower()
Mentions(text, needle) ==
    \E i \in 1..Len(text) :
        /\ text[i].k = "lit"
        /\ Lower(text[i].v) \in
               (IF needle = "temperature" THEN {"temperature", "temperatures"}
                                          ELSE {needle})

\* engine.variables[var_name] = result, if the step names a result_var
StoreResult(scope, step, value) ==
    IF "result_var" \in DOMAIN step.variables
    THEN DictSet(scope, step.variables["result_var"], value)
    ELSE scope

RECURSIVE RunSteps(_, _, _, _, _, _)

\* the rest of the loop body, as it goes on to the next step after a step
\* has failed
AfterStepPastFailure(adapters, steps, i, scope, last_result, calls, r) ==
    IF r.raised
    THEN RunSteps(adapters, steps, i + 1, scope, last_result, calls \o r.calls)
    ELSE RunSteps(adapters, steps, i + 1, StoreResult(scope, steps[i], r.value),
                  r.value, calls \o r.calls)

\* the rest of the loop body once _execute_step has returned or raised
AfterStep(adapters, steps, i, scope, last_result, calls, r) ==
    IF r.raised
    THEN [r EXCEPT !.calls = calls \o r.calls]
    ELSE RunSteps(adapters, steps, i + 1, StoreResult(scope, steps[i], r.value),
                  r.value, calls \o r.calls)

\* the loop body, as if it invoked the step's tool a second time
AfterSubstitutionInvokesTwice(adapters, steps, i, scope, last_result, calls, sub) ==
    IF sub.raised
    THEN Outcome(TRUE, "VariableSubstitutionError", sub.message, None, scope, calls, <<>>)
    ELSE AfterStep(adapters, steps, i, scope, last_result,
                   calls \o ExecuteStep(adapters, scope,
                                        [steps[i] EXCEPT !.parameters = sub.value]).calls,
                   ExecuteStep(adapters, scope, [steps[i] EXCEPT !.parameters = sub.value]))

\* the loop body once _substitute_variables has returned or raised
AfterSubstitution(adapters, steps, i, scope, last_result, calls, sub) ==
    IF sub.raised
    THEN Outcome(TRUE, "VariableSubstitutionError", sub.message, None, scope, calls, <<>>)
    ELSE AfterStep(adapters, steps, i, scope, last_result, calls,
                   ExecuteStep(adapters, scope, [steps[i] EXCEPT !.parameters = sub.value]))

\* the step loop, as if a step's result name were bound, to the last result
\* so far, before the step's parameters are substituted
RunStepsBoundBeforeStep(adapters, steps, i, scope, last_result, calls) ==
    IF i > Len(steps)
    THEN Outcome(FALSE, "", <<>>, last_result, scope, calls, <<>>)
    ELSE AfterSubstitution(adapters, steps, i, scope, last_result, calls,
                           SubstituteVariables(StoreResult(scope, steps[i], last_result),
                                               steps[i].parameters))

\* the step loop of MultiStepStrategy.execute, from step i on
RunSteps(adapters, steps, i, scope, last_result, calls) ==
    IF i > Len(steps)
    THEN Outcome(FALSE, "", <<>>, last_result, scope, calls, <<>>)
    ELSE AfterSubstitution(adapters, steps, i, scope, last_result, calls,
                           SubstituteVariables(scope, steps[i].parameters))

\* the end of MultiStepStrategy.execute, as if it emptied engine.variables
\* before it returned or raised
WithTemperatureUnitScopeDiscarded(plan, r) ==
    IF /\ ~r.raised
       /\ r.value.t = "num"
       /\ \/ Mentions(plan.description, "temperature")
          \/ \E i \in 1..Len(plan.steps) : Mentions(plan.steps[i].description, "weather")
    THEN [r EXCEPT !.value = Str(PyStr(r.value) \o <<DEGREES>>), !.variables = EmptyDict]
    ELSE [r EXCEPT !.variables = EmptyDict]

\* the end of MultiStepStrategy.execute, as if it returned the last result as it is
WithoutTemperatureUnit(plan, r) == r

\* the "°C" that a numeric result gets in a temperature calculation
WithTemperatureUnit(plan, r) ==
    IF /\ ~r.raised
       /\ r.value.t = "num"
       /\ \/ Mentions(plan.description, "temperature")
          \/ \E i \in 1..Len(plan.steps) : Mentions(plan.steps[i].description, "weather")
    THEN [r EXCEPT !.value = Str(PyStr(r.value) \o <<DEGREES>>)]
    ELSE r

\* MultiStepStrategy.execute, as it keeps the bindings it finds in the engine
MultiStepExecuteNoReset(adapters, scope, plan) ==
    IF plan.steps = <<>> THEN NoSteps(scope)
    ELSE WithTemperatureUnit(plan, RunSteps(adapters, plan.steps, 1, scope, None, <<>>))

\* MultiStepStrategy.execute
MultiStepExecute(adapters, scope, plan) ==
    IF plan.steps = <<>> THEN NoSteps(scope)
    ELSE WithTemperatureUnit(plan, RunSteps(adapters, plan.steps, 1, EmptyDict, None, <<>>))

\* plan.original_query, as if it read the plan's description
GetOriginalQueryFromDescription(plan) == Returned(Str(plan.description))

\* plan.original_query: an ExecutionPlan has no such attribute
GetOriginalQuery(plan) ==
    IF "original_query" \in DOMAIN plan
    THEN Returned(plan.original_query)
    ELSE Raised(Words(<<"'ExecutionPlan' object has no attribute 'original_query'">>))

\* llm_fallback(plan.original_query) in LLMStrategy.execute
Generate(scope, original_query) ==
    IF original_query.raised
    THEN Outcome(TRUE, "AttributeError", original_query.message, None, scope, <<>>, <<>>)
    ELSE Outcome(FALSE, "", <<>>, LlmFallback(original_query.value), scope,
                 <<>>, <<original_query.value>>)

\* LLMStrategy.execute
LLMExecute(adapters, scope, plan) ==
    IF plan.steps = <<>> THEN Generate(scope, GetOriginalQuery(plan))
    ELSE ExecuteStep(adapters, scope, plan.steps[1])

\* _register_default_strategies
DefaultStrategies == <<"SingleToolStrategy", "MultiStepStrategy", "LLMStrategy">>

\* can_handle, as if only the single-tool strategy recognized its plans
CanHandleSingleToolOnly(strategy, plan) ==
    strategy = "SingleToolStrategy" /\ plan.type = "single_tool"

\* ExecutionStrategy.can_handle
CanHandle(strategy, plan) ==
    CASE strategy = "SingleToolStrategy" -> plan.type = "single_tool"
      [] strategy = "MultiStepStrategy" -> plan.type = "multi_step"
      [] strategy = "LLMStrategy" -> plan.type = "llm_required"
      [] OTHER -> FALSE

\* ExecutionStrategy.execute
StrategyExecute(strategy, adapters, scope, plan) ==
    CASE strategy = "SingleToolStrategy" -> SingleToolExecute(adapters, scope, plan)
      [] strategy = "MultiStepStrategy" -> MultiStepExecute(adapters, scope, plan)
      [] OTHER -> LLMExecute(adapters, scope, plan)

IsExecutionPlan(input_data) == "steps" \in DOMAIN input_data

\* for strategy in self.execution_strategies: if strategy.can_handle(plan)
AbleStrategies(strategies, plan) ==
    {i \in 1..Len(strategies) : CanHandle(strategies[i], plan)}
FirstStrategy(strategies, plan) ==
    LET able == AbleStrategies(strategies, plan)
    IN  strategies[CHOOSE i \in able : \A j \in able : i <= j]

\* what ExtensibleExecutionEngine.process returns and leaves behind: the
\* LayerResult, engine.variables, the tool operations invoked and the prompts
\* that the engine and its strategies handed to llm_fallback themselves
Run(result, scope, calls, generated) ==
    [result |-> result, variables |-> scope, calls |-> calls, generated |-> generated]

\* the LayerResult of process once strategy.execute has returned or raised
Respond(plan, strategy, r, original_query) ==
    IF ~r.raised
    THEN Run(LayerResult(r.value,
                 [plan_type |-> plan.type, steps_count |-> Len(plan.steps),
                  strategy_used |-> strategy],
                 TRUE, None),
             r.variables, r.calls, r.generated)
    ELSE IF original_query.raised
    THEN Run(LayerResult(None, None, FALSE, <<Lit("Execution failed: ")>> \o r.message),
             r.variables, r.calls, r.generated)
    ELSE Run(LayerResult(LlmFallback(original_query.value),
                 [plan_type |-> plan.type, steps_count |-> Len(plan.steps),
                  strategy_used |-> "fallback"],
                 TRUE, None),
             r.variables, r.calls, r.generated \o <<original_query.value>>)

\* ExtensibleExecutionEngine.process
EngineProcess(adapters, strategies, scope, input_data) ==
    IF ~IsExecutionPlan(input_data)
    THEN Run(LayerResult(None, None, FALSE, Words(<<"Expected ExecutionPlan input">>)),
             scope, <<>>, <<>>)
    ELSE IF AbleStrategies(strategies, input_data) = {}
    THEN Run(LayerResult(None, None, FALSE,
                 <<Lit("No execution strategy found for plan type: "),
                   Lit(input_data.type)>>),
             scope, <<>>, <<>>)
    ELSE Respond(input_data, FirstStrategy(strategies, input_data),
                 StrategyExecute(FirstStrategy(strategies, input_data), adapters, scope,
                                 input_data),
                 GetOriginalQuery(input_data))

(***************************************************************************)
(* The parser as a state machine                                           *)
(***************************************************************************)
\* what callers hand to process: a fixture query or nothing, with or without
\* a blank on either side, or something that is no string
ParserInputs ==
    { Str(l \o core \o r) :
        l \in {<<>>, <<SP>>}, r \in {<<>>, <<SP>>},
        core \in {<<>>} \cup {<<q>> : q \in Queries} }
    \cup {Num(0)}

SeqsUpTo(S, n) == UNION {[1..m -> S] : m \in 0..n}

CustomCount(list) == Cardinality({i \in 1..Len(list) : list[i].name \in CustomNames})
RegisteredCustomNames(list) == {list[i].name : i \in 1..Len(list)} \cap CustomNames

ParserInit ==
    /\ patterns = <<>>
    /\ initialized = FALSE
    /\ registered = 0
    /\ parse_in = None
    /\ parse_out = None

\* ExtensibleQueryParser.initialize; cfg is config["patterns"]
Initialize(cfg) ==
    /\ ~initialized
    /\ CustomCount(patterns) + Len(cfg) <= MaxCustom
    /\ initialized' = TRUE
    /\ patterns' = SortByPriority(
                       RegisterAll(RegisterAll(patterns, DefaultPatternClasses, registered),
                                   cfg, registered + Len(DefaultPatternClasses)))
    /\ registered' = registered + Len(DefaultPatternClasses) + Len(cfg)
    /\ UNCHANGED <<parse_in, parse_out>>
    /\ UNCHANGED engine_vars
    /\ UNCHANGED <<orch_vars, runs>>

\* ExtensibleQueryParser.register_pattern
RegisterPattern(c) ==
    /\ CustomCount(patterns) < MaxCustom
    /\ patterns' = RegisterInto(patterns, QueryPattern(c.name, c.priority, registered + 1))
    /\ registered' = registered + 1
    /\ UNCHANGED <<initialized, parse_in, parse_out>>
    /\ UNCHANGED engine_vars
    /\ UNCHANGED <<orch_vars, runs>>

\* ExtensibleQueryParser.process
Process(input_data, beh) ==
    /\ parse_in' = [input_data |-> input_data, beh |-> beh, patterns |-> patterns]
    /\ parse_out' = ParserProcess(patterns, input_data, beh)
    /\ UNCHANGED <<patterns, initialized, registered>>
    /\ UNCHANGED engine_vars
    /\ UNCHANGED <<orch_vars, runs>>

ProcessCall ==
    \E input_data \in ParserInputs :
        \E beh \in [RegisteredCustomNames(patterns) -> Behaviours] :
            Process(input_data, beh)

EngineInit ==
    /\ tool_adapters = EmptyDict
    /\ execution_strategies = <<>>
    /\ variables = EmptyDict
    /\ engine_initialized = FALSE
    /\ exec_in = None
    /\ exec_out = None
    /\ subst_in = None
    /\ subst_out = None

\* no OPENAI_API_KEY: llm_fallback answers with its placeholder
OrchestratorInit ==
    /\ llm = "unavailable"
    /\ query_in = None
    /\ query_out = None

\* two callers that share one engine; neither has called it yet
Threads == {"A", "B"}
Idle == [pc |-> "idle"]
ThreadsInit == runs = [t \in Threads |-> Idle]

Init == ParserInit /\ EngineInit /\ OrchestratorInit /\ ThreadsInit

ParserNext ==
    \/ \E cfg \in SeqsUpTo(CustomPatternClasses, MaxCustom) : Initialize(cfg)
    \/ \E c \in CustomPatternClasses : RegisterPattern(c)
    \/ ProcessCall

SpecParser == Init /\ [][ParserNext]_vars


(***************************************************************************)
(* The engine as a state machine                                           *)
(*                                                                         *)
(* Plans are built from a pool of steps that covers a weather reading      *)
(* stored under a name, a reference to it, a reference nothing binds, an   *)
(* unknown tool, an unknown operation, a tool that raises and a step that  *)
(* refers to the name it stores its own result under.                      *)
(***************************************************************************)
S_PARIS ==
    ExecutionStep("weather", "get_weather", <<Param("city", Text(<<"paris">>))>>,
                  Words(<<"Get", "temperature", "in", "paris">>), ResultVar("temp1"))
S_ADD ==
    ExecutionStep("calculator", "add",
                  <<Param("first_number", Str(<<Ref("temp1")>>)),
                    Param("second_number", Num(1000))>>,
                  Words(<<"Add", "10.0", "to", "reading">>), ResultVar("total"))
S_MISSING ==
    ExecutionStep("calculator", "add",
                  <<Param("first_number", Str(<<Ref("missing")>>)),
                    Param("second_number", Num(500))>>,
                  Words(<<"Add", "5", "to", "missing">>), ResultVar("total"))
S_NOTOOL ==
    ExecutionStep("email", "send", <<Param("to", Text(<<"ops">>))>>,
                  Words(<<"Send", "mail">>), EmptyDict)
S_NOOP ==
    ExecutionStep("calculator", "sqrt", <<Param("number", Num(400))>>,
                  Words(<<"Square", "root">>), EmptyDict)
S_DIV0 ==
    ExecutionStep("calculator", "divide",
                  <<Param("first_number", Num(100)), Param("second_number", Num(0))>>,
                  Words(<<"Divide", "by", "zero">>), ResultVar("total"))
S_FALLBACK == CreateFallbackPlan(<<Q_GIBBERISH>>).steps[1]
S_TWICE ==
    ExecutionStep("calculator", "add",
                  <<Param("first_number", Str(<<Ref("total")>>)),
                    Param("second_number", Num(1000))>>,
                  Words(<<"Add", "10.0", "once", "more">>), ResultVar("total"))

StepPool == {S_PARIS, S_ADD, S_MISSING, S_NOTOOL, S_NOOP, S_DIV0, S_TWICE}
ReadingSteps == {S_PARIS, S_ADD}
FirstStepPool == {S_ADD, S_FALLBACK}

EngineInputs ==
    {ExecutionPlan("multi_step", steps, Words(<<"Compute">>)) :
         steps \in SeqsUpTo(StepPool, MaxSteps)}
    \cup {ExecutionPlan("multi_step", steps, Words(<<"Add", "to", "temperature">>)) :
              steps \in SeqsUpTo(ReadingSteps, MaxSteps)}
    \cup {ExecutionPlan(type, steps, Words(<<"Compute">>)) :
              type \in {"single_tool", "llm_required"},
              steps \in SeqsUpTo(FirstStepPool, MaxSteps)}
    \cup {ExecutionPlan("unknown", <<>>, Words(<<"Compute">>)), None}

\* ExtensibleExecutionEngine.initialize
EngineInitialize ==
    /\ ~engine_initialized
    /\ tool_adapters' = DefaultToolAdapters
    /\ execution_strategies' = execution_strategies \o DefaultStrategies
    /\ engine_initialized' = TRUE
    /\ UNCHANGED <<variables, exec_in, exec_out, subst_in, subst_out>>
    /\ UNCHANGED parser_vars
    /\ UNCHANGED <<orch_vars, runs>>

\* what process leaves in the engine and hands to its caller
Finish(input_data, run) ==
    /\ exec_in' = [input_data |-> input_data, variables |-> variables,
                   tool_adapters |-> tool_adapters,
                   execution_strategies |-> execution_strategies]
    /\ exec_out' = [result |-> run.result, calls |-> run.calls,
                    generated |-> run.generated]
    /\ variables' = run.variables

\* ExtensibleExecutionEngine.process(input_data)
Execute(input_data) ==
    /\ Finish(input_data,
              EngineProcess(tool_adapters, execution_strategies, variables, input_data))
    /\ UNCHANGED <<tool_adapters, execution_strategies, engine_initialized,
                   subst_in, subst_out>>
    /\ UNCHANGED parser_vars
    /\ UNCHANGED <<orch_vars, runs>>

ExecuteCall == \E input_data \in EngineInputs : Execute(input_data)

EngineNext ==
    \/ EngineInitialize
    \/ ExecuteCall

SpecEngine == Init /\ [][EngineNext]_vars

(***************************************************************************)
(* The multi-step plans of the built-in recognizers and single-tool plans, *)
(* executed on an engine whose tool adapters config["custom_tools"] or a   *)
(* caller of register_tool_adapter may have replaced or extended           *)
(***************************************************************************)
\* operation_map.get(operation_word, 'add')
CalcOperation(operation_word) ==
    CASE operation_word \in {"add", "plus"} -> "add"
      [] operation_word \in {"subtract", "minus"} -> "subtract"
      [] operation_word \in {"multiply", "times"} -> "multiply"
      [] operation_word = "divide" -> "divide"
      [] OTHER -> "add"

\* 'to' if calc_operation == 'add' else 'from' if calc_operation == 'subtract' else 'by'
Preposition(calc_operation) ==
    CASE calc_operation = "add" -> "to"
      [] calc_operation = "subtract" -> "from"
      [] OTHER -> "by"

\* str.capitalize() of the words the regular expressions capture
Capitalize(word) ==
    CASE word = "add" -> "Add"
      [] word = "minus" -> "Minus"
      [] word = "times" -> "Times"
      [] word = "divide" -> "Divide"
      [] word = "average" -> "Average"
      [] word = "sum" -> "Sum"
      [] OTHER -> word

\* f"{value}" of the floats the regular expressions capture
FloatText(n) ==
    CASE n = 0 -> "0.0"
      [] n = 1000 -> "10.0"
      [] n = 1800 -> "18.0"
      [] n = 10000 -> "100.0"
      [] n = 20000 -> "200.0"
      [] OTHER -> "?"

\* the step that reads a city's temperature, declaring no binding for it
ReadTemperatureUnbound(city, var) ==
    ExecutionStep("weather", "get_weather", << Param("city", Text(<<city>>)) >>,
                  Words(<<"Get", "temperature", "in", city>>), EmptyDict)

\* the step that reads a city's temperature and stores it under var
ReadTemperature(city, var) ==
    ExecutionStep("weather", "get_weather", << Param("city", Text(<<city>>)) >>,
                  Words(<<"Get", "temperature", "in", city>>), ResultVar(var))

\* the step that reads a city's weather for a summary
ReadWeatherData(city) ==
    ExecutionStep("weather", "get_weather", << Param("city", Text(<<city>>)) >>,
                  Words(<<"Get", "weather", "data", "for", city>>), ResultVar("weather_data"))

\* the two steps of "convert the average of X and Y CUR to CUR"; the two
\* recognizers that emit them differ in the name of the binding, and only
\* the component recognizer passes variables={} to the second step, which is
\* what ExecutionStep.__post_init__ makes of the default
ConvertAveragePlan(avg_var, g) ==
    ExecutionPlan("multi_step",
        << ExecutionStep("calculator", "average",
               << Param("numbers", List(<<Num(g.num1), Num(g.num2)>>)) >>,
               Words(<<"Calculate", "average", "of", FloatText(g.num1), "and",
                       FloatText(g.num2)>>),
               ResultVar(avg_var)),
           ExecutionStep("currency", "currency_convert",
               << Param("amount", Str(<<Ref(avg_var)>>)),
                  Param("from_currency", Text(<<g.from_currency>>)),
                  Param("to_currency", Text(<<g.to_currency>>)) >>,
               Words(<<"Convert", "average", "to", g.to_currency>>), EmptyDict) >>,
        Words(<<"Convert", "average", "of", FloatText(g.num1), "and", FloatText(g.num2),
                g.from_currency, "to", g.to_currency>>))

\* ComponentBasedQueryParser.parse, its three branches that return a
\* multi-step plan; g holds what the regular expressions captured
ComponentMultiStep(kind, g) ==
    CASE kind = "summarize" ->
            ExecutionPlan("multi_step",
                << ReadWeatherData(g.city1),
                   ExecutionStep("llm", "generate",
                       << Param("prompt",
                              Str(<<Lit("Summarize "), Ref("weather_data"),
                                    Lit(" in exactly "), IntDigits(g.word_count),
                                    Lit(" words")>>)) >>,
                       <<Lit("Summarize"), Lit("weather"), Lit("in"),
                         IntDigits(g.word_count), Lit("words")>>,
                       EmptyDict) >>,
                <<Lit("Summarize"), Lit("weather"), Lit("in"), Lit(g.city1), Lit("in"),
                  IntDigits(g.word_count), Lit("words")>>)
      [] kind = "add_average" ->
            ExecutionPlan("multi_step",
                AddToAverageSteps("avg_temp", 1000, g.city1, g.city2),
                AddToAverageDescription(g.city1, g.city2))
      [] kind = "convert_average" -> ConvertAveragePlan("avg_amount", g)

\* f"{operation_word.capitalize()} {value} {to|from|by}"
MathPhrase(operation_word, value) ==
    <<Capitalize(operation_word), FloatText(value),
      Preposition(CalcOperation(operation_word))>>

\* MultiStepPattern.parse, the seven branches; g holds what the regular
\* expression of the branch captured
MultiStepParse(kind, g) ==
    CASE kind = "math_avg_temp" ->
            ExecutionPlan("multi_step",
                << ReadTemperature(g.city1, "temp1"),
                   ReadTemperature(g.city2, "temp2"),
                   ExecutionStep("calculator", "average",
                       << Param("numbers",
                              List(<<Str(<<Ref("temp1")>>), Str(<<Ref("temp2")>>)>>)) >>,
                       Words(<<"Calculate", "average", "of", "temperatures">>),
                       ResultVar("avg")),
                   ExecutionStep("calculator", CalcOperation(g.operation_word),
                       << Param("first_number", Str(<<Ref("avg")>>)),
                          Param("second_number", Num(g.value)) >>,
                       Words(MathPhrase(g.operation_word, g.value)
                                 \o <<"average", "temperature">>),
                       EmptyDict) >>,
                Words(MathPhrase(g.operation_word, g.value)
                          \o <<"average", "temperature", "in", g.city1, "and", g.city2>>))
      [] kind = "math_specific_temp" ->
            ExecutionPlan("multi_step",
                << ReadTemperature(g.city1, "temp"),
                   ExecutionStep("calculator", CalcOperation(g.operation_word),
                       << Param("first_number", Str(<<Ref("temp")>>)),
                          Param("second_number", Num(g.value)) >>,
                       Words(MathPhrase(g.operation_word, g.value)
                                 \o <<"temperature", "in", g.city1>>),
                       EmptyDict) >>,
                Words(MathPhrase(g.operation_word, g.value)
                          \o <<"temperature", "in", g.city1>>))
      [] kind = "if_temp_math" ->
            ExecutionPlan("multi_step",
                << ExecutionStep("calculator", CalcOperation(g.operation_word),
                       << Param("first_number", Num(g.temp_value)),
                          Param("second_number", Num(g.value)) >>,
                       Words(MathPhrase(g.operation_word, g.value)
                                 \o <<FloatText(g.temp_value)>>) \o <<DEGREES>>,
                       EmptyDict) >>,
                Words(MathPhrase(g.operation_word, g.value) \o <<FloatText(g.temp_value)>>)
                    \o <<DEGREES>> \o Words(<<"temperature", "in", g.city1>>))
      [] kind = "multi_city_temp" ->
            ExecutionPlan("multi_step",
                << ReadTemperature(g.city1, "temp1"),
                   ReadTemperature(g.city2, "temp2"),
                   ExecutionStep("calculator",
                       IF g.operation_word = "average" THEN "average" ELSE "add",
                       << Param("numbers",
                              List(<<Str(<<Ref("temp1")>>), Str(<<Ref("temp2")>>)>>)) >>,
                       Words(<<Capitalize(g.operation_word), "temperatures", "in",
                               g.city1, "and", g.city2>>),
                       EmptyDict) >>,
                Words(<<Capitalize(g.operation_word), "temperatures", "in",
                        g.city1, "and", g.city2>>))
      [] kind = "compare_temps" ->
            ExecutionPlan("multi_step",
                << ReadTemperature(g.city1, "temp1"),
                   ReadTemperature(g.city2, "temp2"),
                   ExecutionStep("calculator", "subtract",
                       << Param("first_number", Str(<<Ref("temp1")>>)),
                          Param("second_number", Str(<<Ref("temp2")>>)) >>,
                       Words(<<"Calculate", "temperature", "difference", "between",
                               g.city1, "and", g.city2>>),
                       EmptyDict) >>,
                Words(<<"Compare", "temperatures", "between", g.city1, "and", g.city2>>))
      [] kind = "convert_avg_currency" -> ConvertAveragePlan("avg", g)
      [] kind = "summarize_weather" ->
            ExecutionPlan("multi_step",
                << ReadWeatherData(g.city1),
                   ExecutionStep("llm", "llm_fallback",
                       << Param("prompt",
                              Str(<<Lit("Summarize the weather temperature "),
                                    Ref("weather_data"), Lit(" in "), Lit(g.city1),
                                    Lit(" in exactly "), IntDigits(g.word_count),
                                    Lit(" words")>>)) >>,
                       <<Lit("Summarize"), Lit("weather"), Lit("in"),
                         IntDigits(g.word_count), Lit("words")>>,
                       EmptyDict) >>,
                <<Lit("Summarize"), Lit("weather"), Lit("in"), Lit(g.city1), Lit("in"),
                  IntDigits(g.word_count), Lit("words")>>)

\* what the regular expressions capture: the operation word, the numbers, the
\* cities (one of them in no table), the currencies (one of them unsupported)
MathWords == {"add", "minus", "times", "divide"}
TotalWords == {"average", "sum"}
Groups ==
    [operation_word : MathWords \cup TotalWords, value : {0, 1000},
     city1 : {"paris", "atlantis"}, city2 : {"london"},
     num1 : {10000}, num2 : {20000}, from_currency : {"USD"},
     to_currency : {"EUR", "XXX"}, word_count : {5}, temp_value : {1800}]

\* every multi-step plan the two recognizers return for these captures; the
\* expressions of math_specific_temp and if_temp_math do not accept "times"
BuiltinMultiStepPlans ==
    {ComponentMultiStep(kind, g) :
         kind \in {"summarize", "add_average", "convert_average"}, g \in Groups}
    \cup {MultiStepParse("math_avg_temp", g) :
              g \in {h \in Groups : h.operation_word \in MathWords}}
    \cup {MultiStepParse(kind, g) :
              kind \in {"math_specific_temp", "if_temp_math"},
              g \in {h \in Groups : h.operation_word \in MathWords \ {"times"}}}
    \cup {MultiStepParse("multi_city_temp", g) :
              g \in {h \in Groups : h.operation_word \in TotalWords}}
    \cup {MultiStepParse(kind, g) :
              kind \in {"compare_temps", "convert_avg_currency", "summarize_weather"},
              g \in Groups}

\* a single-tool plan for the custom tool "forecast"
ForecastPlan(city) ==
    ExecutionPlan("single_tool",
        << ExecutionStep("forecast", "get_weather",
               << Param("city", Text(<<city>>)) >>,
               Words(<<"Forecast", "for", city>>), EmptyDict) >>,
        Words(<<"Forecast", "for", city>>))

\* ComponentBasedQueryParser.parse, 'direct_convert'
ConvertPlan(amount, from_currency, to_currency) ==
    ExecutionPlan("single_tool",
        << ExecutionStep("currency", "currency_convert",
               << Param("amount", Num(amount)),
                  Param("from_currency", Text(<<from_currency>>)),
                  Param("to_currency", Text(<<to_currency>>)) >>,
               Words(<<"Convert", FloatText(amount), from_currency, "to", to_currency>>),
               EmptyDict) >>,
        Words(<<"Convert", FloatText(amount), from_currency, "to", to_currency>>))

SingleToolPlans ==
    {WeatherPlan("paris"), WeatherPlan("atlantis"), ForecastPlan("london"),
     KnowledgePlan("ada lovelace"), MultiplyPlan(300, 400), DividePlan(10000, 0),
     ConvertPlan(10000, "USD", "EUR")}

PlanInputs == BuiltinMultiStepPlans \cup SingleToolPlans

\* the adapters of config["custom_tools"]: weather.get_weather behind a
\* StandardToolAdapter in the place of the default adapter, the default
\* adapter again, and the same function as a tool of its own
CustomTools ==
    { <<"weather", ToolAdapter("StandardToolAdapter", {"get_weather"})>>,
      <<"weather", ToolAdapter("WeatherToolAdapter", {"get_weather"})>>,
      <<"forecast", ToolAdapter("WeatherToolAdapter", {"get_weather"})>> }

\* register_tool_adapter(name, adapter), called by initialize for each entry
\* of config["custom_tools"] once the default tools are registered
RegisterToolAdapter(name, adapter) ==
    /\ engine_initialized
    /\ tool_adapters' = DictSet(tool_adapters, name, adapter)
    /\ UNCHANGED <<execution_strategies, variables, engine_initialized, exec_in,
                   exec_out, subst_in, subst_out>>
    /\ UNCHANGED parser_vars
    /\ UNCHANGED <<orch_vars, runs>>

RegisterToolAdapterCall == \E tool \in CustomTools : RegisterToolAdapter(tool[1], tool[2])

ExecutePlanCall == \E input_data \in PlanInputs : Execute(input_data)

PlansNext ==
    \/ EngineInitialize
    \/ RegisterToolAdapterCall
    \/ ExecutePlanCall

SpecPlans == Init /\ [][PlansNext]_vars

(***************************************************************************)
(* _substitute_variables on its own, called on a scope that was assigned   *)
(* to engine.variables beforehand (tests/test_comprehensive.py,            *)
(* test_variable_substitution)                                             *)
(***************************************************************************)
ParisReading ==
    ExecuteOperation(DefaultToolAdapters.weather, "weather", "get_weather",
                     S_PARIS.parameters).value

Scopes ==
    {EmptyDict,
     DictSet(EmptyDict, "temp1", ParisReading),
     DictSet(EmptyDict, "temp1", Num(2000)),
     DictSet(DictSet(EmptyDict, "temp1", ParisReading), "total", Num(2800))}

ParamKeys == NumericKeys \cup {"city", "prompt"}

ParamValues ==
    {Str(<<Ref("temp1")>>),
     Str(<<Lit("It is "), Ref("temp1")>>),
     List(<<Str(<<Ref("temp1")>>), Num(500)>>),
     Str(<<Ref("total")>>),
     List(<<Num(500), Str(<<Ref("total")>>), Str(<<Ref("temp1")>>),
            Str(<<Lit("near "), Ref("temp1")>>)>>),
     Str(<<Lit("From "), Ref("temp1"), Lit(" to "), Ref("total"), Lit(".")>>),
     Str(<<Ref("temp1"), Lit(" and "), Ref("total")>>)}

ParamLists ==
    {<<Param(key, value)>> : key \in ParamKeys, value \in ParamValues}
    \cup {<<Param("units", Text(<<"metric">>)), Param(key, value)>> :
              key \in ParamKeys, value \in ParamValues}

\* engine.variables = scope; engine._substitute_variables(params)
Substitute(scope, params) ==
    /\ engine_initialized
    /\ variables' = scope
    /\ subst_in' = [params |-> params, variables |-> scope]
    /\ subst_out' = SubstituteVariables(scope, params)
    /\ UNCHANGED <<tool_adapters, execution_strategies, engine_initialized,
                   exec_in, exec_out>>
    /\ UNCHANGED parser_vars
    /\ UNCHANGED <<orch_vars, runs>>

SubstituteCall == \E scope \in Scopes : \E params \in ParamLists : Substitute(scope, params)

SubstNext ==
    \/ EngineInitialize
    \/ SubstituteCall

SpecSubst == Init /\ [][SubstNext]_vars

(***************************************************************************)
(* ExtensiblePromptCleaner, LayerPipeline and Orchestrator                 *)
(* (agent/layers/prompt_cleaner.py, agent/layers/base.py,                  *)
(* agent/orchestrator.py)                                                  *)
(*                                                                         *)
(* The orchestrator of create_orchestrator("default") owns one cleaner,    *)
(* one parser and one engine: the parser and the engine of this model.     *)
(***************************************************************************)
\* texts as a caller may type them: a misspelling, two abbreviations, a
\* product written with an x
R_WEATHER == Lit("whats the wether in paris?")
R_ADDAVG == Lit("add 10 to the avg temp in paris and london right now.")
R_TIMES == Lit("3 x 4")

\* _apply_spelling_corrections: "wether" -> "weather", "whats" -> "what is"
CorrectSpelling(part) ==
    CASE part = R_WEATHER -> Q_WEATHER
      [] OTHER -> part

\* _apply_abbreviations: "avg" -> "average", "temp" -> "temperature"
ExpandAbbreviations(part) ==
    CASE part = R_ADDAVG -> Q_ADDAVG
      [] OTHER -> part

\* _apply_math_normalization: "3 x 4" -> "3 * 4"
NormalizeMath(part) ==
    CASE part = R_TIMES -> Q_TIMES
      [] OTHER -> part

\* _apply_case_normalization, as if it left the text as it is
KeepCase(part) == part

\* _apply_case_normalization: the first letter of each sentence in upper case
NormalizeCase(part) ==
    CASE part = Q_WEATHER -> T_WEATHER
      [] part = Q_ADDAVG -> T_ADDAVG
      [] part = Q_GIBBERISH -> T_GIBBERISH
      [] part = Q_DIVIDE -> T_DIVIDE
      [] OTHER -> part

CleanPart(part) == NormalizeCase(NormalizeMath(ExpandAbbreviations(CorrectSpelling(part))))
CleanText(text) == [i \in 1..Len(text) |-> CleanPart(text[i])]

\* the cleaner's process, as if it let a blank text through
CleanerProcessBlankThrough(input_data) ==
    IF input_data.t # "str"
    THEN LayerResult(None, None, FALSE, Words(<<"Expected string input">>))
    ELSE LayerResult(Str(CleanText(Strip(input_data.s))),
                     [original_prompt |-> input_data], TRUE, None)

\* ExtensiblePromptCleaner.process with the four transformations enabled
CleanerProcess(input_data) ==
    IF input_data.t # "str"
    THEN LayerResult(None, None, FALSE, Words(<<"Expected string input">>))
    ELSE IF Strip(input_data.s) = <<>>
    THEN LayerResult(None, None, FALSE, Words(<<"Empty prompt provided">>))
    ELSE LayerResult(Str(CleanText(Strip(input_data.s))),
                     [original_prompt |-> input_data], TRUE, None)

\* the orchestrator registers no recognizer of its own
NoCustomBehaviour == [name \in {} |-> "no_match"]

\* what LayerPipeline.process returns when a layer's result is a failure
LayerFailed(name, result) ==
    LayerResult(None, None, FALSE,
        <<Lit("Layer "), Lit(name), Lit(" failed: ")>> \o result.error_message)

\* what LayerPipeline.process returns and leaves behind: its LayerResult, the
\* result of each layer it invoked (None for a layer it did not reach) and
\* engine.variables
Piped(result, cleaned, parsed, executed, scope) ==
    [result |-> result, cleaned |-> cleaned, parsed |-> parsed, executed |-> executed,
     variables |-> scope]

\* the loop of LayerPipeline.process once the engine has returned
AfterEngine(cleaned, parsed, run) ==
    IF ~run.result.success
    THEN Piped(LayerFailed("execution_engine", run.result), cleaned, parsed, run,
               run.variables)
    ELSE Piped(LayerResult(run.result.data, run.result.metadata, TRUE, None),
               cleaned, parsed, run, run.variables)

\* ... once the parser has returned
AfterParser(cleaned, parsed, adapters, strategies, scope) ==
    IF ~parsed.success
    THEN Piped(LayerFailed("query_parser", parsed), cleaned, parsed, None, scope)
    ELSE AfterEngine(cleaned, parsed, EngineProcess(adapters, strategies, scope, parsed.data))

\* ... once the cleaner has returned
AfterCleaner(cleaned, list, adapters, strategies, scope) ==
    IF ~cleaned.success
    THEN Piped(LayerFailed("prompt_cleaner", cleaned), cleaned, None, None, scope)
    ELSE AfterParser(cleaned, ParserProcess(list, cleaned.data, NoCustomBehaviour),
                     adapters, strategies, scope)

\* LayerPipeline.process on the three layers of the orchestrator
PipelineProcess(list, adapters, strategies, scope, input_data) ==
    AfterCleaner(CleanerProcess(input_data), list, adapters, strategies, scope)

\* f"Generated Answer for: {raw_query}"
DefaultResult(raw_query) == Str(<<Lit("Generated Answer for: ")>> \o PyStr(raw_query))

\* what process_query returns: the answer, whether an exception left it, and
\* the prompts it handed to llm_fallback itself, each with what came of it
Answered(answer, fallback) == [answer |-> answer, escaped |-> FALSE, fallback |-> fallback]

\* llm_fallback(raw_query) in process_query, as if no except clause stood
\* around it
FallbackAnswerNoCatch(raw_query, r) ==
    IF r.raised
    THEN [answer |-> None, escaped |-> TRUE,
          fallback |-> <<[prompt |-> raw_query, raised |-> TRUE]>>]
    ELSE Answered(r.value, <<[prompt |-> raw_query, raised |-> FALSE]>>)

\* llm_fallback(raw_query) in process_query, and the default result if it raises
FallbackAnswer(raw_query, r) ==
    IF r.raised
    THEN Answered(DefaultResult(raw_query), <<[prompt |-> raw_query, raised |-> TRUE]>>)
    ELSE Answered(r.value, <<[prompt |-> raw_query, raised |-> FALSE]>>)

\* process_query, as if it handed the cleaned text to llm_fallback
AnswerFromCleanedText(raw_query, piped) ==
    IF piped.result.success
    THEN Answered(Str(PyStr(piped.result.data)), <<>>)
    ELSE IF piped.cleaned.success
    THEN FallbackAnswer(piped.cleaned.data, LlmCall(piped.cleaned.data))
    ELSE FallbackAnswer(raw_query, LlmCall(raw_query))

\* Orchestrator.process_query once the pipeline has returned
Answer(raw_query, piped) ==
    IF piped.result.success
    THEN Answered(Str(PyStr(piped.result.data)), <<>>)
    ELSE FallbackAnswer(raw_query, LlmCall(raw_query))

(***************************************************************************)
(* The orchestrator as a state machine                                     *)
(***************************************************************************)
\* what callers hand to process_query: a text with or without a blank on
\* either side, an empty or blank text, or something that is no string
RawTexts ==
    {Q_WEATHER, R_WEATHER, Q_ADDAVG, R_ADDAVG, T_ADDAVG_TEST, Q_GIBBERISH, T_GIBBERISH,
     Q_DIVIDE, R_TIMES}

RawQueries ==
    { Str(l \o core \o r) :
        l \in {<<>>, <<SP>>}, r \in {<<>>, <<SP>>},
        core \in {<<>>} \cup {<<q>> : q \in RawTexts} }
    \cup {Num(0)}

\* the loop of LayerPipeline.process that initializes the layers
InitializedPatterns ==
    IF initialized THEN patterns
    ELSE SortByPriority(RegisterAll(patterns, DefaultPatternClasses, registered))
InitializedAdapters == IF engine_initialized THEN tool_adapters ELSE DefaultToolAdapters
InitializedStrategies ==
    IF engine_initialized THEN execution_strategies
    ELSE execution_strategies \o DefaultStrategies

\* what process_query leaves in the orchestrator's layers and hands to its
\* caller
Conclude(raw_query, piped) ==
    /\ query_in' = [raw_query |-> raw_query, llm |-> llm, variables |-> variables]
    /\ query_out' = [answer |-> Answer(raw_query, piped).answer,
                     escaped |-> Answer(raw_query, piped).escaped,
                     fallback |-> Answer(raw_query, piped).fallback,
                     pipeline |-> piped]
    /\ variables' = piped.variables
    /\ parse_in' = IF piped.parsed = None THEN parse_in
                   ELSE [input_data |-> piped.cleaned.data, beh |-> NoCustomBehaviour,
                         patterns |-> InitializedPatterns]
    /\ parse_out' = IF piped.parsed = None THEN parse_out ELSE piped.parsed
    /\ exec_in' = IF piped.executed = None THEN exec_in
                  ELSE [input_data |-> piped.parsed.data, variables |-> variables,
                        tool_adapters |-> InitializedAdapters,
                        execution_strategies |-> InitializedStrategies]
    /\ exec_out' = IF piped.executed = None THEN exec_out
                   ELSE [result |-> piped.executed.result, calls |-> piped.executed.calls,
                         generated |-> piped.executed.generated]

\* Orchestrator.process_query(raw_query)
ProcessQuery(raw_query) ==
    /\ Conclude(raw_query,
                PipelineProcess(InitializedPatterns, InitializedAdapters,
                                InitializedStrategies, variables, raw_query))
    /\ patterns' = InitializedPatterns
    /\ registered' = IF initialized THEN registered
                     ELSE registered + Len(DefaultPatternClasses)
    /\ initialized' = TRUE
    /\ tool_adapters' = InitializedAdapters
    /\ execution_strategies' = InitializedStrategies
    /\ engine_initialized' = TRUE
    /\ UNCHANGED <<subst_in, subst_out, llm, runs>>

ProcessQueryCall == \E raw_query \in RawQueries : ProcessQuery(raw_query)

\* the environment: the text generator becomes reachable, unreachable or broken
SetLlm(mode) ==
    /\ llm # mode
    /\ llm' = mode
    /\ UNCHANGED <<query_in, query_out, runs>>
    /\ UNCHANGED parser_vars
    /\ UNCHANGED engine_vars

SetLlmCall == \E mode \in LlmModes : SetLlm(mode)

OrchestratorNext ==
    \/ ProcessQueryCall
    \/ SetLlmCall

SpecOrchestrator == Init /\ [][OrchestratorNext]_vars

(***************************************************************************)
(* Two executions of multi-step plans on one engine, interleaved           *)
(*                                                                         *)
(* Each caller runs MultiStepStrategy.execute on its own plan; the loop's  *)
(* locals are the caller's own, engine.variables is the engine's.  A       *)
(* caller's steps are the statements that touch engine.variables: the      *)
(* assignment of {} at the start, the substitution that reads it (with the *)
(* tool call that follows, which touches nothing shared) and the           *)
(* assignment that stores a result.                                        *)
(***************************************************************************)
\* London's reading, stored under the name the Paris step uses
S_LONDON ==
    ExecutionStep("weather", "get_weather", <<Param("city", Text(<<"london">>))>>,
                  Words(<<"Get", "temperature", "in", "london">>), ResultVar("temp1"))

ThreadPlans ==
    {ExecutionPlan("multi_step", steps, Words(<<"Compute">>)) :
         steps \in {<<S_PARIS, S_ADD>>, <<S_LONDON, S_ADD>>, <<S_PARIS>>, <<S_ADD>>}}

\* a caller inside the loop: its plan, the step it is at, its locals, the tool
\* operations it invoked, and the bindings its own steps stored
Running(pc, plan, i, last_result, pending, calls, own) ==
    [pc |-> pc, plan |-> plan, i |-> i, last_result |-> last_result,
     pending |-> pending, calls |-> calls, own |-> own]

\* a caller that engine.process has returned to
Done(plan, result, calls, own) ==
    [pc |-> "done", plan |-> plan, result |-> result, calls |-> calls, own |-> own]

\* engine.process returns: the strategy's value or the exception it raised
Return(run, r) ==
    Done(run.plan,
         Respond(run.plan, "MultiStepStrategy", r, GetOriginalQuery(run.plan)).result,
         r.calls, run.own)

\* engine.process(plan) up to engine.variables = {}
Begin(t, plan) ==
    /\ engine_initialized
    /\ runs[t].pc = "idle"
    /\ variables' = EmptyDict
    /\ runs' = [runs EXCEPT ![t] = Running("resolve", plan, 1, None, None, <<>>, EmptyDict)]
    /\ UNCHANGED <<tool_adapters, execution_strategies, engine_initialized, exec_in,
                   exec_out, subst_in, subst_out>>
    /\ UNCHANGED parser_vars
    /\ UNCHANGED orch_vars

BeginCall == \E t \in Threads : \E plan \in ThreadPlans : Begin(t, plan)

\* the caller once _execute_step has returned or raised
Invoked(run, r) ==
    IF r.raised
    THEN Return(run, [r EXCEPT !.calls = run.calls \o r.calls])
    ELSE [run EXCEPT !.pc = "bind", !.pending = r.value, !.calls = run.calls \o r.calls]

\* the caller if the resolved parameters were written into the step of its plan
SubstitutedInPlace(run, sub) ==
    IF sub.raised
    THEN Return(run, Outcome(TRUE, "VariableSubstitutionError", sub.message, None,
                             variables, run.calls, <<>>))
    ELSE Invoked([run EXCEPT !.plan.steps[run.i].parameters = sub.value],
                 ExecuteStep(tool_adapters, variables,
                             [run.plan.steps[run.i] EXCEPT !.parameters = sub.value]))

\* the caller once _substitute_variables has returned or raised
Substituted(run, sub) ==
    IF sub.raised
    THEN Return(run, Outcome(TRUE, "VariableSubstitutionError", sub.message, None,
                             variables, run.calls, <<>>))
    ELSE Invoked(run, ExecuteStep(tool_adapters, variables,
                                  [run.plan.steps[run.i] EXCEPT !.parameters = sub.value]))

\* engine._substitute_variables(step.parameters) and engine._execute_step
Resolve(t) ==
    /\ runs[t].pc = "resolve"
    /\ runs' = [runs EXCEPT ![t] =
                    Substituted(runs[t],
                                SubstituteVariables(variables,
                                    runs[t].plan.steps[runs[t].i].parameters))]
    /\ UNCHANGED engine_vars
    /\ UNCHANGED parser_vars
    /\ UNCHANGED orch_vars

ResolveCall == \E t \in Threads : Resolve(t)

\* the caller after the last statement of the loop body
Stored(run, own) ==
    IF run.i = Len(run.plan.steps)
    THEN Return([run EXCEPT !.own = own],
                WithTemperatureUnit(run.plan,
                    Outcome(FALSE, "", <<>>, run.pending, variables, run.calls, <<>>)))
    ELSE Running("resolve", run.plan, run.i + 1, run.pending, None, run.calls, own)

\* engine.variables[var_name] = result; last_result = result
Bind(t) ==
    /\ runs[t].pc = "bind"
    /\ variables' = StoreResult(variables, runs[t].plan.steps[runs[t].i], runs[t].pending)
    /\ runs' = [runs EXCEPT ![t] =
                    Stored(runs[t],
                           StoreResult(runs[t].own, runs[t].plan.steps[runs[t].i],
                                       runs[t].pending))]
    /\ UNCHANGED <<tool_adapters, execution_strategies, engine_initialized, exec_in,
                   exec_out, subst_in, subst_out>>
    /\ UNCHANGED parser_vars
    /\ UNCHANGED orch_vars

BindCall == \E t \in Threads : Bind(t)

InterleavedNext ==
    \/ EngineInitialize
    \/ BeginCall
    \/ ResolveCall
    \/ BindCall

SpecInterleaved == Init /\ [][InterleavedNext]_vars

(***************************************************************************)
(* Properties of the parser                                                *)
(***************************************************************************)
IsPlan(d) ==
    /\ DOMAIN d = {"type", "steps", "description", "confidence"}
    /\ d.type \in QueryType

\* the last call of process, seen from outside
CalledWithString == parse_in # None /\ parse_in.input_data.t = "str"
CalledList == parse_in.patterns
CalledQuery == Strip(parse_in.input_data.s)
CalledWithQuery == CalledWithString /\ CalledQuery # <<>>
DidMatch(i) == Matches(CalledList[i], CalledQuery, parse_in.beh) = "true"
DidRaise(i) ==
    \/ Matches(CalledList[i], CalledQuery, parse_in.beh) = "raise"
    \/ DidMatch(i) /\ Parse(CalledList[i], CalledQuery, parse_in.beh).raised
DidParse(i) == DidMatch(i) /\ ~Parse(CalledList[i], CalledQuery, parse_in.beh).raised
ParseOutput(i) == Parse(CalledList[i], CalledQuery, parse_in.beh).value
Positions == 1..Len(CalledList)

\* recognizer i is tried before recognizer j: higher priority, or the same
\* priority and registered earlier
Precedes(i, j) ==
    \/ CalledList[i].priority > CalledList[j].priority
    \/ /\ CalledList[i].priority = CalledList[j].priority
       /\ CalledList[i].reg < CalledList[j].reg

\* C1 as stated: for every non-empty string input, process returns a
\* successful result whose data is a Plan.
C1_EveryNonEmptyString ==
    (CalledWithString /\ parse_in.input_data.s # <<>>)
        => (parse_out.success /\ IsPlan(parse_out.data))

\* C1, amended: for every string input that is not empty after stripping the
\* blanks around it, process returns a successful result whose data is a Plan,
\* also when the matches or the parse of registered recognizers raises.
C1_StrippedNonEmptyGivesPlan ==
    CalledWithQuery => (parse_out.success /\ IsPlan(parse_out.data))

C1_Witness ==
    /\ CalledWithQuery
    /\ \E i \in Positions :
           Matches(CalledList[i], CalledQuery, parse_in.beh) = "raise"
    /\ \E i \in Positions : DidMatch(i) /\ ~DidParse(i)
    /\ parse_out.success
    /\ IsPlan(parse_out.data)

C3_HigherPriorityOutputReturned ==
    CalledWithQuery =>
        \A i, j \in Positions :
            ( /\ DidMatch(i) /\ DidMatch(j)
              /\ CalledList[i].priority > CalledList[j].priority
              /\ \A k \in Positions \ {i} :
                     DidMatch(k) => CalledList[k].priority < CalledList[i].priority )
            => (DidParse(i) /\ parse_out.data = ParseOutput(i))

\* C3, amended: when two registered recognizers both match the text and the
\* parse of the one with the strictly higher priority succeeds, the returned
\* plan is the parse output of a recognizer of at least that priority, and it
\* is that recognizer's own output when no other recognizer of its priority or
\* above matches and parses; the lower one's output is returned only when the
\* parse of every recognizer tried before it raised.
C3_HighestParsingOutputReturned ==
    CalledWithQuery =>
        \A i, j \in Positions :
            ( /\ DidParse(i) /\ DidMatch(j)
              /\ CalledList[i].priority > CalledList[j].priority )
            => /\ parse_out.success
               /\ \E w \in Positions :
                      /\ DidParse(w)
                      /\ CalledList[w].priority >= CalledList[i].priority
                      /\ parse_out.data = ParseOutput(w)
                      /\ parse_out.metadata.matched_pattern = CalledList[w].name
               /\ (\A k \in Positions \ {i} :
                       DidParse(k) => CalledList[k].priority < CalledList[i].priority)
                      => parse_out.data = ParseOutput(i)

C3_Witness ==
    /\ CalledWithQuery
    /\ \E i, j \in Positions :
           /\ DidParse(i) /\ DidParse(j)
           /\ CalledList[i].priority > CalledList[j].priority
           /\ parse_out.data = ParseOutput(i)
           /\ parse_out.data # ParseOutput(j)

\* C4: when a recognizer matches and its parse raises, the failure is recorded
\* and the search goes on in priority order: the plan of the first recognizer
\* after it that matches and parses is returned, the fallback plan when there
\* is none, and the call succeeds.
C4_ParseFailureFallsThrough ==
    (CalledWithQuery /\ \E i \in Positions : DidMatch(i) /\ ~DidParse(i))
        => /\ parse_out.success
           /\ IsPlan(parse_out.data)
           /\ \A w \in Positions :
                  (DidParse(w) /\ \A k \in Positions : DidParse(k) => ~Precedes(k, w))
                  => /\ parse_out.data = ParseOutput(w)
                     /\ parse_out.metadata.matched_pattern = CalledList[w].name
                     /\ \A i \in Positions :
                            (DidRaise(i) /\ Precedes(i, w))
                            => \E n \in 1..Len(parse_out.metadata.patterns_tried) :
                                   parse_out.metadata.patterns_tried[n]
                                       = Tried(CalledList[i].name, TRUE)
           /\ (\A w \in Positions : ~DidParse(w))
                  => /\ parse_out.metadata.matched_pattern = "fallback"
                     /\ \A i \in Positions :
                            DidRaise(i)
                            => \E n \in 1..Len(parse_out.metadata.patterns_tried) :
                                   parse_out.metadata.patterns_tried[n]
                                       = Tried(CalledList[i].name, TRUE)

C4_Witness ==
    /\ CalledWithQuery
    /\ \E i, w \in Positions :
           /\ DidMatch(i) /\ ~DidParse(i)
           /\ DidParse(w)
           /\ Precedes(i, w)
           /\ parse_out.data = ParseOutput(w)
           /\ parse_out.metadata.patterns_tried
                  = <<Tried(CalledList[i].name, TRUE), Tried(CalledList[w].name, FALSE)>>

\* C5: the recognizer list is in descending order of priority, recognizers of
\* equal priority are in the order of their registration, and of two
\* recognizers of equal priority that both match and parse, it is not the
\* later registered one whose plan is returned (the plan may carry its name
\* only if another recognizer of that name comes before the earlier one).
C5_ListSortedAndStable ==
    /\ \A i, j \in 1..Len(patterns) :
           i < j => \/ patterns[i].priority > patterns[j].priority
                    \/ /\ patterns[i].priority = patterns[j].priority
                       /\ patterns[i].reg < patterns[j].reg
    /\ CalledWithQuery =>
           \A i, j \in Positions :
               ( /\ DidParse(i) /\ DidParse(j)
                 /\ CalledList[i].priority = CalledList[j].priority
                 /\ CalledList[i].reg < CalledList[j].reg
                 /\ CalledList[i].name # CalledList[j].name )
               => ( parse_out.metadata.matched_pattern = CalledList[j].name
                    => \E m \in Positions :
                           /\ CalledList[m].name = CalledList[j].name
                           /\ DidParse(m)
                           /\ \/ CalledList[m].priority > CalledList[i].priority
                              \/ /\ CalledList[m].priority = CalledList[i].priority
                                 /\ CalledList[m].reg < CalledList[i].reg )

C5_Witness ==
    /\ initialized
    /\ \E i, j \in 1..Len(patterns) :
           /\ i < j
           /\ patterns[i].priority = patterns[j].priority
           /\ patterns[i].name = "component_based"
           /\ patterns[j].name = "custom_high"
    /\ CalledWithQuery
    /\ CalledList = patterns
    /\ \E i, j \in Positions :
           /\ DidParse(i) /\ DidParse(j)
           /\ CalledList[i].priority = CalledList[j].priority
           /\ CalledList[i].name # CalledList[j].name


(***************************************************************************)
(* Properties of the engine                                                *)
(***************************************************************************)
\* the last call of process, seen from outside
Ran == exec_in # None /\ IsExecutionPlan(exec_in.input_data)
RanPlan == exec_in.input_data
RanSteps == RanPlan.steps
RanInitialized == Ran /\ exec_in.execution_strategies = DefaultStrategies
RanMultiStep == RanInitialized /\ RanPlan.type = "multi_step"
Failure(message) == LayerResult(None, None, FALSE, <<Lit("Execution failed: ")>> \o message)

\* the names a parameter value refers to
RefsOf(value) ==
    CASE value.t = "str" -> {value.s[i].v : i \in {j \in 1..Len(value.s) : value.s[j].k = "ref"}}
      [] value.t = "list" ->
            UNION {{value.items[i].s[j].v :
                        j \in {n \in 1..Len(value.items[i].s) : value.items[i].s[n].k = "ref"}} :
                   i \in {m \in 1..Len(value.items) : value.items[m].t = "str"}}
      [] OTHER -> {}
StepRefs(step) == UNION {RefsOf(step.parameters[i].value) : i \in 1..Len(step.parameters)}
Stores(step, name) ==
    "result_var" \in DOMAIN step.variables /\ step.variables["result_var"] = name

\* the run of this plan's first k - 1 steps
Before(k) ==
    RunSteps(exec_in.tool_adapters, SubSeq(RanSteps, 1, k - 1), 1, EmptyDict, None, <<>>)

\* a plan that reads Paris and adds 10, and the scope it leaves when it completes
PlanA == ExecutionPlan("multi_step", <<S_PARIS, S_ADD>>, Words(<<"Compute">>))
ScopeOfA == EngineProcess(DefaultToolAdapters, DefaultStrategies, EmptyDict, PlanA)

\* C6: on one engine, a multi-step plan starts from an empty scope whatever an
\* earlier plan left bound: what the run returns and invokes is what it
\* returns and invokes on a fresh engine, and a step that refers to a name
\* bound only by the earlier plan (no earlier step of this plan stores it) is
\* never reached with that value: the run fails before its tool is invoked.
\* The scope the run leaves holds only names that its own steps store.
C6_PlanStartsFromEmptyScope ==
    RanMultiStep =>
        /\ LET fresh == EngineProcess(exec_in.tool_adapters, exec_in.execution_strategies,
                                      EmptyDict, RanPlan)
           IN  /\ exec_out.result = fresh.result
               /\ exec_out.calls = fresh.calls
        /\ \A k \in 1..Len(RanSteps) :
               (\E name \in StepRefs(RanSteps[k]) \cap DOMAIN exec_in.variables :
                    \A j \in 1..(k - 1) : ~Stores(RanSteps[j], name))
               => /\ ~exec_out.result.success
                  /\ Len(exec_out.calls) < k
        /\ RanSteps # <<>> =>
               \A name \in DOMAIN variables :
                   \E k \in 1..Len(RanSteps) : Stores(RanSteps[k], name)

\* plan A completed and left temp1 and total bound; plan B, which only adds to
\* temp1, then failed because temp1 is not bound
C6_Witness ==
    /\ RanMultiStep
    /\ ScopeOfA.result.success
    /\ exec_in.variables = ScopeOfA.variables
    /\ "temp1" \in DOMAIN exec_in.variables
    /\ RanSteps = <<S_ADD>>
    /\ exec_out.result = Failure(Words(<<"Variable '", "temp1", "' not found">>))
    /\ exec_out.calls = <<>>

\* C7: in a multi-step plan, when the steps before step k succeeded and step k
\* refers to a name that none of them stored, the engine returns a failed
\* result with the substitution error for that name; it invoked the tools of
\* the steps before k only: not the tool of step k, and no later step.
C7_UnboundReferenceFailsPlan ==
    RanMultiStep =>
        \A k \in 1..Len(RanSteps) :
            LET before == Before(k)
                unbound == StepRefs(RanSteps[k]) \ DOMAIN before.variables
            IN  (~before.raised /\ unbound # {}) =>
                    /\ \E name \in unbound :
                           exec_out.result =
                               Failure(Words(<<"Variable '", name, "' not found">>))
                    /\ exec_out.calls = before.calls
                    /\ Len(exec_out.calls) = k - 1

\* Paris was read, the next step refers to a name nothing stored, a third step
\* that would have run is not reached at all
C7_Witness ==
    /\ RanMultiStep
    /\ Len(RanSteps) >= 2
    /\ RanSteps[1] = S_PARIS
    /\ RanSteps[2] = S_MISSING
    /\ exec_out.result = Failure(Words(<<"Variable '", "missing", "' not found">>))
    /\ Len(exec_out.calls) = 1
    /\ exec_out.calls[1].tool = "weather"

\* the last call of _substitute_variables, seen from outside
IsWholeReferenceTo(value, name) == value.t = "str" /\ value.s = <<Ref(name)>>
IsReading(value) == DOMAIN value = {"t", "display", "numeric", "value"}

\* C8: when a parameter's whole value is a reference to a binding that holds
\* a dual-typed value, _substitute_variables gives the parameter the numeric
\* component if its name is numbers, first_number, second_number or amount,
\* and the display component under every other name.
C8_DualValueByParameterName ==
    (subst_in # None /\ ~subst_out.raised) =>
        \A i \in 1..Len(subst_in.params) :
            \A name \in DOMAIN subst_in.variables :
                (/\ IsWholeReferenceTo(subst_in.params[i].value, name)
                 /\ IsReading(subst_in.variables[name]))
                => /\ subst_out.value[i].key = subst_in.params[i].key
                   /\ subst_out.value[i].value =
                          IF subst_in.params[i].key \in
                                 {"numbers", "first_number", "second_number", "amount"}
                          THEN subst_in.variables[name].numeric
                          ELSE subst_in.variables[name].display

\* temp1 holds the reading {display: "18°C", numeric: 18.0}; the parameter
\* amount = "${temp1}" came out as 18.0 next to a parameter that has no
\* reference
C8_Witness ==
    /\ subst_in # None
    /\ "temp1" \in DOMAIN subst_in.variables
    /\ subst_in.variables["temp1"] =
           [t |-> "dict", display |-> Str(<<IntDigits(1800), DEGREES>>),
            numeric |-> Num(1800), value |-> Num(1800)]
    /\ subst_in.params = <<Param("units", Text(<<"metric">>)),
                           Param("amount", Str(<<Ref("temp1")>>))>>
    /\ ~subst_out.raised
    /\ subst_out.value[2] = Param("amount", Num(1800))

\* C9: when the strategy that handles the plan raises, the engine returns a
\* failed result with no data, and neither the engine nor the strategy has
\* handed a prompt to llm_fallback: the tool operations invoked are those the
\* strategy invoked before it raised.
C9_EngineDoesNotGenerateOnFailure ==
    (RanInitialized /\ AbleStrategies(exec_in.execution_strategies, RanPlan) # {}) =>
        LET outcome == StrategyExecute(
                           FirstStrategy(exec_in.execution_strategies, RanPlan),
                           exec_in.tool_adapters, exec_in.variables, RanPlan)
        IN  outcome.raised =>
                /\ exec_out.result.success = FALSE
                /\ exec_out.result.data = None
                /\ exec_out.result.error_message # None
                /\ exec_out.generated = <<>>
                /\ exec_out.calls = outcome.calls

\* a plan read Paris and then named a tool that is not registered: failed
\* result, one tool operation invoked, nothing generated
C9_Witness ==
    /\ RanMultiStep
    /\ RanSteps = <<S_PARIS, S_NOTOOL>>
    /\ exec_out.result.success = FALSE
    /\ Len(exec_out.calls) = 1
    /\ exec_out.generated = <<>>

\* what step k is called with: its parameters after substitution in a
\* multi-step plan, as written in the other kinds of plan
CalledStep(k) ==
    IF RanPlan.type = "multi_step"
    THEN [RanSteps[k] EXCEPT !.parameters =
              SubstituteVariables(Before(k).variables, RanSteps[k].parameters).value]
    ELSE RanSteps[k]

\* step k is reached and its parameters can be substituted
Reaches(k) ==
    IF RanPlan.type = "multi_step"
    THEN /\ ~Before(k).raised
         /\ ~SubstituteVariables(Before(k).variables, RanSteps[k].parameters).raised
    ELSE k = 1

CallsBefore(k) == IF RanPlan.type = "multi_step" THEN Before(k).calls ELSE <<>>

\* C10: when step k names a tool that is not registered, an operation its
\* tool does not have, or an operation that raises, the engine returns a
\* failed result whose message is "Execution failed: " followed by the
\* message of the ExecutionError for that case.  The tool of step k is
\* invoked at most once (never for a failed lookup) and no later step runs.
C10_StepFailureFailsPlan ==
    RanInitialized =>
        \A k \in 1..Len(RanSteps) :
            Reaches(k) =>
                LET step == CalledStep(k)
                    call == Call(step.tool, step.operation, step.parameters)
                IN  IF step.tool \notin DOMAIN exec_in.tool_adapters
                    THEN /\ exec_out.result =
                                Failure(<<Lit("Tool not found: "), Lit(step.tool)>>)
                         /\ exec_out.calls = CallsBefore(k)
                    ELSE IF step.operation \notin
                                exec_in.tool_adapters[step.tool].operations
                    THEN /\ exec_out.result =
                                Failure(<<Lit("Operation '"), Lit(step.operation),
                                          Lit("' not found in tool '"), Lit(step.tool),
                                          Lit("'")>>)
                         /\ exec_out.calls = CallsBefore(k)
                    ELSE LET r == ExecuteOperation(exec_in.tool_adapters[step.tool],
                                      step.tool, step.operation, step.parameters)
                         IN  r.raised =>
                                 /\ exec_out.result =
                                        Failure(<<Lit("Error executing "), Lit(step.tool),
                                                  Lit("."), Lit(step.operation),
                                                  Lit(": ")>> \o r.message)
                                 /\ exec_out.calls = CallsBefore(k) \o <<call>>

\* Paris was read, then the division by zero raised in the calculator: the
\* failed result carries the calculator's message, two operations were
\* invoked, each once
C10_Witness ==
    /\ RanMultiStep
    /\ Len(RanSteps) >= 2
    /\ RanSteps[1] = S_PARIS
    /\ RanSteps[2] = S_DIV0
    /\ exec_out.result =
           Failure(<<Lit("Error executing "), Lit("calculator"), Lit("."), Lit("divide"),
                     Lit(": "), Lit("Cannot divide by zero")>>)
    /\ Len(exec_out.calls) = 2
    /\ exec_out.calls[2].operation = "divide"

\* C13: executing a GenerationRequired plan that has no step hands the
\* original query text to the text generator once and returns the
\* generator's answer as a successful result.
C13_EmptyGenerationPlanIsAnswered ==
    (RanInitialized /\ RanPlan.type = "llm_required" /\ RanSteps = <<>>) =>
        /\ exec_out.result.success
        /\ Len(exec_out.generated) = 1
        /\ exec_out.result.data = LlmFallback(exec_out.generated[1])

NoStrategyFound(plan) ==
    LayerResult(None, None, FALSE,
        <<Lit("No execution strategy found for plan type: "), Lit(plan.type)>>)

C16_WitnessUnknown ==
    /\ RanInitialized
    /\ RanPlan.type = "unknown"
    /\ exec_out.result = NoStrategyFound(RanPlan)
    /\ "temp1" \in DOMAIN variables

\* step k of the plan ran to its end: the steps before it and its own
\* substitution and tool call went through
Completed(k) == ~Before(k + 1).raised

\* the names stored by the steps of the plan that ran to their end
StoredByRun ==
    {RanSteps[k].variables["result_var"] :
         k \in {j \in 1..Len(RanSteps) :
                    "result_var" \in DOMAIN RanSteps[j].variables /\ Completed(j)}}

ReturnedByCall(k) ==
    ExecuteOperation(exec_in.tool_adapters[exec_out.calls[k].tool],
                     exec_out.calls[k].tool, exec_out.calls[k].operation,
                     exec_out.calls[k].parameters).value

\* the bindings made from what the first k tool operations returned, each
\* under the name its step declares
RECURSIVE BoundAfter(_)
BoundAfter(k) ==
    IF k = 0 THEN EmptyDict
    ELSE IF "result_var" \in DOMAIN RanSteps[k].variables
    THEN DictSet(BoundAfter(k - 1), RanSteps[k].variables["result_var"], ReturnedByCall(k))
    ELSE BoundAfter(k - 1)

\* C15: when a multi-step run of n steps returns a successful result, the
\* tools were invoked exactly n times, the i-th invocation being step i's tool
\* and operation, with step i's parameters resolved against the bindings made
\* from the results of invocations 1..i-1: every step is invoked once, in plan
\* order, and its result is bound before the next step's parameters are
\* resolved.
C15_OneInvocationPerStepInOrder ==
    (RanMultiStep /\ exec_out.result.success) =>
        /\ Len(exec_out.calls) = Len(RanSteps)
        /\ \A i \in 1..Len(RanSteps) :
               /\ exec_out.calls[i].tool = RanSteps[i].tool
               /\ exec_out.calls[i].operation = RanSteps[i].operation
               /\ ~SubstituteVariables(BoundAfter(i - 1), RanSteps[i].parameters).raised
               /\ exec_out.calls[i].parameters =
                      SubstituteVariables(BoundAfter(i - 1), RanSteps[i].parameters).value

\* Paris was read and bound to temp1, then the addition was invoked with the
\* number of that reading: two invocations for two steps
C15_Witness ==
    /\ RanMultiStep
    /\ exec_out.result.success
    /\ RanSteps = <<S_PARIS, S_ADD>>
    /\ Len(exec_out.calls) = 2
    /\ exec_out.calls[1] = Call("weather", "get_weather", S_PARIS.parameters)
    /\ exec_out.calls[2] =
           Call("calculator", "add",
                <<Param("first_number", Num(1800)), Param("second_number", Num(1000))>>)

(***************************************************************************)
(* Properties of the orchestrator                                          *)
(***************************************************************************)
\* the last call of process_query, seen from outside
Asked == query_in # None
AskedText == Asked /\ query_in.raw_query.t = "str"
RawText == Strip(query_in.raw_query.s)
Reached(layer) ==
    CASE layer = "prompt_cleaner" -> TRUE
      [] layer = "query_parser" -> query_out.pipeline.parsed # None
      [] layer = "execution_engine" -> query_out.pipeline.executed # None

\* the query "add 10 to the average temperature in paris and london right
\* now." in the three spellings of the model
AskedAddToAverage ==
    AskedText /\ RawText \in {<<Q_ADDAVG>>, <<R_ADDAVG>>, <<T_ADDAVG_TEST>>}

\* C17: "add 10 to the average temperature in Paris and London" compiles to a
\* multi-step plan of four steps (get Paris, get London, average, add 10);
\* executing it invokes the four operations in that order, the average on the
\* two readings 18.0 and 17.0 and the addition on their average 17.5 and 10.0,
\* and the answer of the query is ((18 + 17) / 2) + 10 followed by the unit:
\* "27.5°C".
C17_AddToAverageAnswer ==
    AskedAddToAverage =>
        /\ Reached("execution_engine")
        /\ query_out.pipeline.parsed.data.type = "multi_step"
        /\ Len(query_out.pipeline.parsed.data.steps) = 4
        /\ Len(query_out.pipeline.executed.calls) = 4
        /\ query_out.pipeline.executed.calls =
               << Call("weather", "get_weather", <<Param("city", Text(<<"paris">>))>>),
                  Call("weather", "get_weather", <<Param("city", Text(<<"london">>))>>),
                  Call("calculator", "average",
                       <<Param("numbers",
                               List(<<Num(FallbackTemperatures.paris),
                                      Num(FallbackTemperatures.london)>>))>>),
                  Call("calculator", "add",
                       <<Param("first_number",
                               Num((FallbackTemperatures.paris
                                    + FallbackTemperatures.london) \div 2)),
                         Param("second_number", Num(1000))>>) >>
        /\ \A i \in 1..4 :
               /\ query_out.pipeline.parsed.data.steps[i].tool =
                      query_out.pipeline.executed.calls[i].tool
               /\ query_out.pipeline.parsed.data.steps[i].operation =
                      query_out.pipeline.executed.calls[i].operation
        /\ query_out.answer = Str(<<Digits(2750), DEGREES>>)
        /\ query_out.fallback = <<>>

\* the text of test_temperature_averaging_with_addition was asked and
\* answered "27.5°C"
C17_Witness ==
    /\ AskedText
    /\ RawText = <<T_ADDAVG_TEST>>
    /\ query_out.pipeline.result.success
    /\ query_out.pipeline.parsed.metadata.matched_pattern = "component_based"
    /\ query_out.answer = Str(<<Digits(2750), DEGREES>>)

\* C11: whatever process_query is called with (an empty or blank text, a text
\* that no recognizer matches, a text whose plan fails when it is executed,
\* something that is no string) and whatever the text generator does, raising
\* included, process_query returns a string and no exception leaves it.
C11_AlwaysReturnsString ==
    Asked =>
        /\ ~query_out.escaped
        /\ query_out.answer.t = "str"

\* the plan of "divide 100 by 0" failed in the calculator, the text generator
\* raised when process_query turned to it, and the caller got the default
\* answer
C11_Witness ==
    /\ AskedText
    /\ RawText = <<Q_DIVIDE>>
    /\ query_in.llm = "raises"
    /\ Reached("execution_engine")
    /\ ~query_out.pipeline.executed.result.success
    /\ query_out.fallback = <<[prompt |-> query_in.raw_query, raised |-> TRUE]>>
    /\ ~query_out.escaped
    /\ query_out.answer = Str(<<Lit("Generated Answer for: ")>> \o query_in.raw_query.s)

\* what the text generator gives for a prompt in each of its modes
GeneratorAnswer(mode, prompt) ==
    IF prompt.t # "str" \/ Strip(prompt.s) = <<>> THEN LlmFallback(prompt)
    ELSE IF mode = "answers" THEN Str(<<Lit("LLM answer to: ")>> \o prompt.s)
    ELSE LlmFallback(prompt)
GeneratorRaises(mode, prompt) ==
    mode = "raises" /\ prompt.t = "str" /\ Strip(prompt.s) # <<>>

\* C12: when the pipeline reports a failure, process_query calls llm_fallback
\* once, with the query as the caller passed it (not stripped, not cleaned);
\* it returns what llm_fallback returns, and when llm_fallback raises it
\* returns "Generated Answer for: " followed by the raw query.
C12_FailureFallsBackOnRawQuery ==
    (Asked /\ ~query_out.pipeline.result.success) =>
        /\ Len(query_out.fallback) = 1
        /\ query_out.fallback[1].prompt = query_in.raw_query
        /\ query_out.fallback[1].raised =
               GeneratorRaises(query_in.llm, query_in.raw_query)
        /\ IF GeneratorRaises(query_in.llm, query_in.raw_query)
           THEN query_out.answer =
                    Str(<<Lit("Generated Answer for: ")>> \o query_in.raw_query.s)
           ELSE query_out.answer = GeneratorAnswer(query_in.llm, query_in.raw_query)

\* " divide 100 by 0" was cleaned to "Divide 100 by 0", its plan failed in
\* the calculator, and the generator was asked the text as typed, blank
\* included, and answered
C12_Witness ==
    /\ Asked
    /\ query_in.raw_query = Str(<<SP, Q_DIVIDE>>)
    /\ query_in.llm = "answers"
    /\ query_out.pipeline.cleaned.data = Str(<<T_DIVIDE>>)
    /\ ~query_out.pipeline.result.success
    /\ query_out.fallback = <<[prompt |-> Str(<<SP, Q_DIVIDE>>), raised |-> FALSE]>>
    /\ query_out.answer = Str(<<Lit("LLM answer to: "), SP, Q_DIVIDE>>)

\* no recognizer matched the text of the last query
Unmatched ==
    /\ AskedText
    /\ Reached("query_parser")
    /\ query_out.pipeline.parsed.success
    /\ query_out.pipeline.parsed.metadata.patterns_tried = <<>>
    /\ query_out.pipeline.parsed.metadata.matched_pattern = "fallback"

\* C14 as stated: for a text that no recognizer matches, the run hands the
\* text generator the query as the caller passed it, and the answer is what
\* the generator gives for it.
C14_GeneratorGetsRawQuery ==
    Unmatched =>
        /\ Reached("execution_engine")
        /\ query_out.pipeline.executed.calls =
               <<Call("llm", "llm_fallback", <<Param("prompt", query_in.raw_query)>>)>>
        /\ query_out.answer = GeneratorAnswer(query_in.llm, query_in.raw_query)

\* C14: for a text that no recognizer matches, the engine hands the text
\* generator the cleaned text (stripped, first letter in upper case), once;
\* when the generator returns, its output for the cleaned text is the answer
\* and process_query does not turn to the generator itself; when it raises,
\* the engine's result is a failure and process_query falls back on the raw
\* query.
C14_GeneratorGetsCleanedQuery ==
    Unmatched =>
        /\ Reached("execution_engine")
        /\ RawText \in {<<Q_GIBBERISH>>, <<T_GIBBERISH>>} =>
               query_out.pipeline.cleaned.data = Str(<<T_GIBBERISH>>)
        /\ query_out.pipeline.executed.calls =
               <<Call("llm", "llm_fallback",
                      <<Param("prompt", query_out.pipeline.cleaned.data)>>)>>
        /\ IF GeneratorRaises(query_in.llm, query_out.pipeline.cleaned.data)
           THEN /\ ~query_out.pipeline.result.success
                /\ query_out.fallback =
                       <<[prompt |-> query_in.raw_query, raised |-> TRUE]>>
           ELSE /\ query_out.answer =
                       GeneratorAnswer(query_in.llm, query_out.pipeline.cleaned.data)
                /\ query_out.fallback = <<>>

\* " gibberish xyz 123" was asked; the generator got "Gibberish xyz 123" and
\* its output is the answer
C14_Witness ==
    /\ Unmatched
    /\ query_in.raw_query = Str(<<SP, Q_GIBBERISH>>)
    /\ query_in.llm = "answers"
    /\ query_out.pipeline.executed.calls =
           <<Call("llm", "llm_fallback", <<Param("prompt", Str(<<T_GIBBERISH>>))>>)>>
    /\ query_out.answer = Str(<<Lit("LLM answer to: "), T_GIBBERISH>>)
    /\ query_out.fallback = <<>>

\* C20: an empty or blank text is rejected by the prompt cleaner ("Empty
\* prompt provided"): the pipeline stops there, neither the parser nor the
\* engine is invoked, and the caller of process_query still receives a string
\* that is not empty.
C20_BlankRejectedBeforeParser ==
    (AskedText /\ RawText = <<>>) =>
        /\ query_out.pipeline.cleaned =
               LayerResult(None, None, FALSE, Words(<<"Empty prompt provided">>))
        /\ ~Reached("query_parser")
        /\ ~Reached("execution_engine")
        /\ ~query_out.pipeline.result.success
        /\ ~query_out.escaped
        /\ query_out.answer.t = "str"
        /\ query_out.answer.s # <<>>

\* a blank was asked while the text generator was raising: the cleaner
\* rejected it and the caller got llm_fallback's answer for an empty prompt
C20_Witness ==
    /\ Asked
    /\ query_in.raw_query = Str(<<SP>>)
    /\ query_in.llm = "raises"
    /\ query_out.pipeline.parsed = None
    /\ query_out.pipeline.executed = None
    /\ query_out.answer = Text(<<"Generated Answer for: [Empty prompt]">>)

(***************************************************************************)
(* Properties of interleaved executions                                    *)
(***************************************************************************)
\* what the plan of caller t gives on an engine that nobody else uses
Alone(t) == EngineProcess(tool_adapters, execution_strategies, EmptyDict, runs[t].plan)

\* C18: two multi-step executions interleaved on one engine do not interfere:
\* whenever a caller is about to resolve a step's references, every name the
\* step refers to is bound in the scope exactly if the caller's own steps
\* stored it, and to the value they stored (no binding of the other caller is
\* read, none of its own is lost); and when it has returned, its result and
\* the tool operations it invoked are those of the same plan run alone.
C18_InterleavedRunsDoNotInterfere ==
    \A t \in Threads :
        /\ runs[t].pc = "resolve" =>
               \A name \in StepRefs(runs[t].plan.steps[runs[t].i]) :
                   /\ name \in DOMAIN variables <=> name \in DOMAIN runs[t].own
                   /\ name \in DOMAIN runs[t].own =>
                          variables[name] = runs[t].own[name]
        /\ runs[t].pc = "done" =>
               /\ runs[t].result = Alone(t).result
               /\ runs[t].calls = Alone(t).calls

(***************************************************************************)
(* Properties of _substitute_variables                                     *)
(***************************************************************************)
\* the items of a list that are one whole reference, and the names they give
IsItemReference(item) == item.t = "str" /\ Len(item.s) = 1 /\ item.s[1].k = "ref"
ItemName(item) == item.s[1].v

\* C21: a list-valued parameter comes out as a list of the same length, item
\* by item in the same order: an item that is a whole reference to a bound
\* name is replaced by the binding's value, by its numeric component when the
\* binding holds a reading; every other item is the item that went in.
C21_ListResolvedItemByItem ==
    subst_in # None =>
        \A i \in 1..Len(subst_in.params) :
            LET value == subst_in.params[i].value
                scope == subst_in.variables
            IN  (/\ value.t = "list"
                 /\ \A j \in 1..Len(value.items) :
                        IsItemReference(value.items[j])
                            => ItemName(value.items[j]) \in DOMAIN scope)
                => /\ ~subst_out.raised
                   /\ subst_out.value[i].key = subst_in.params[i].key
                   /\ subst_out.value[i].value.t = "list"
                   /\ Len(subst_out.value[i].value.items) = Len(value.items)
                   /\ \A j \in 1..Len(value.items) :
                          subst_out.value[i].value.items[j] =
                              IF IsItemReference(value.items[j])
                              THEN IF IsReading(scope[ItemName(value.items[j])])
                                   THEN scope[ItemName(value.items[j])].numeric
                                   ELSE scope[ItemName(value.items[j])]
                              ELSE value.items[j]

\* numbers = [5.0, "${total}", "${temp1}", "near ${temp1}"] with total = 28.0
\* and temp1 the Paris reading came out as [5.0, 28.0, 18.0, "near ${temp1}"]
C21_Witness ==
    /\ subst_in # None
    /\ subst_in.variables = DictSet(DictSet(EmptyDict, "temp1", ParisReading),
                                    "total", Num(2800))
    /\ subst_in.params =
           <<Param("numbers",
                   List(<<Num(500), Str(<<Ref("total")>>), Str(<<Ref("temp1")>>),
                          Str(<<Lit("near "), Ref("temp1")>>)>>))>>
    /\ ~subst_out.raised
    /\ subst_out.value =
           <<Param("numbers",
                   List(<<Num(500), Num(2800), Num(1800),
                          Str(<<Lit("near "), Ref("temp1")>>)>>))>>

\* a string that holds references next to other text
HasEmbeddedReferences(value) ==
    /\ value.t = "str"
    /\ \E j \in 1..Len(value.s) : value.s[j].k = "ref"
    /\ \E j \in 1..Len(value.s) : value.s[j].k # "ref"

\* C23 as stated: every string parameter that holds references next to other
\* text, wherever they stand in it, comes out with each reference to a bound
\* name replaced by the binding's display component, or by the string form of
\* a bare scalar.
C23_EveryEmbeddedReferenceReplaced ==
    subst_in # None =>
        \A i \in 1..Len(subst_in.params) :
            (/\ HasEmbeddedReferences(subst_in.params[i].value)
             /\ RefsOf(subst_in.params[i].value) \subseteq DOMAIN subst_in.variables)
            => /\ ~subst_out.raised
               /\ subst_out.value[i] =
                      Param(subst_in.params[i].key,
                            Str(ReplaceAll(subst_in.variables, subst_in.params[i].value.s)))

(***************************************************************************)
(* Properties of the strategies                                            *)
(***************************************************************************)
\* a description that speaks of temperature or of weather
MentionsTemperature(text) == Mentions(text, "temperature") \/ Mentions(text, "weather")

\* the plan that ran, or one of its steps, speaks of temperature
RanTemperaturePlan ==
    \/ MentionsTemperature(RanPlan.description)
    \/ \E k \in 1..Len(RanSteps) : MentionsTemperature(RanSteps[k].description)

\* what the last step of the plan that ran returned
LastResult == Before(Len(RanSteps) + 1).value

\* C22 as stated: when all steps of a multi-step plan have run, the answer is
\* the last step's number followed by the unit if the plan's description or a
\* step's description speaks of temperature, and the last step's result as it
\* is if none does.
C22_UnitWhenTemperatureMentioned ==
    (RanMultiStep /\ RanSteps # <<>> /\ exec_out.result.success) =>
        /\ (RanTemperaturePlan /\ LastResult.t = "num")
               => exec_out.result.data = Str(<<Digits(LastResult.n), DEGREES>>)
        /\ ~RanTemperaturePlan => exec_out.result.data = LastResult

\* the last call of process handled a single-tool plan
RanSingleTool == RanInitialized /\ RanPlan.type = "single_tool"

\* the plan that ran, cut down to its first step
FirstStepOnly == [RanPlan EXCEPT !.steps = <<RanSteps[1]>>]

\* C25: for a single-tool plan that has more than one step, the engine
\* invokes at most one tool operation, the first step's, with the first
\* step's parameters; its result is the result of the plan cut down to its
\* first step, and no binding is stored.
C25_OnlyFirstStepExecuted ==
    (RanSingleTool /\ Len(RanSteps) > 1) =>
        /\ Len(exec_out.calls) <= 1
        /\ \A c \in 1..Len(exec_out.calls) :
               exec_out.calls[c] =
                   Call(RanSteps[1].tool, RanSteps[1].operation, RanSteps[1].parameters)
        /\ LET alone == EngineProcess(exec_in.tool_adapters, exec_in.execution_strategies,
                                      exec_in.variables, FirstStepOnly)
           IN  /\ exec_out.result.success = alone.result.success
               /\ exec_out.result.data = alone.result.data
               /\ exec_out.result.error_message = alone.result.error_message
               /\ exec_out.calls = alone.calls
        /\ variables = exec_in.variables

\* a single-tool plan asked the text generator and then named an addition:
\* the generator's answer is the result and the calculator was not invoked
C25_Witness ==
    /\ RanSingleTool
    /\ RanSteps = <<S_FALLBACK, S_ADD>>
    /\ exec_out.result.success
    /\ exec_out.result.data = Str(<<Lit("Generated Answer for: "), Q_GIBBERISH>>)
    /\ Len(exec_out.calls) = 1
    /\ exec_out.calls[1].tool = "llm"

\* C26 as stated: the single-tool strategy resolves the first step's
\* parameters before it executes the step: when a parameter refers to a name
\* that is not bound, the plan fails with the substitution error for that name
\* and no tool is invoked.
C26_SingleToolResolvesFirst ==
    (RanSingleTool /\ RanSteps # <<>>) =>
        \A name \in StepRefs(RanSteps[1]) \ DOMAIN exec_in.variables :
            /\ exec_out.result = Failure(Words(<<"Variable '", name, "' not found">>))
            /\ exec_out.calls = <<>>

\* the names that the steps before step k store, and the last of those steps
\* that stores a name
StoredBefore(k) ==
    {RanSteps[j].variables["result_var"] :
         j \in {m \in 1..(k - 1) : "result_var" \in DOMAIN RanSteps[m].variables}}
LastStoring(k, name) ==
    CHOOSE j \in 1..(k - 1) :
        /\ Stores(RanSteps[j], name)
        /\ \A m \in (j + 1)..(k - 1) : ~Stores(RanSteps[m], name)

\* C30: in a multi-step run, when the steps before step k have succeeded, the
\* names bound at step k are exactly the names those steps store, each with
\* the result of the last of them that stores it.  A step that refers to a
\* name that no earlier step stores, be it the name of its own result or of a
\* later step's, fails the plan as unbound: its tool is not invoked and no
\* later step runs.
C30_BoundOnlyAfterExecution ==
    RanMultiStep =>
        \A k \in 1..Len(RanSteps) :
            ~Before(k).raised =>
                /\ DOMAIN Before(k).variables = StoredBefore(k)
                /\ \A name \in StoredBefore(k) :
                       Before(k).variables[name] = Before(LastStoring(k, name) + 1).value
                /\ (StepRefs(RanSteps[k]) \ StoredBefore(k) # {}) =>
                       /\ \E name \in StepRefs(RanSteps[k]) \ StoredBefore(k) :
                              exec_out.result =
                                  Failure(Words(<<"Variable '", name, "' not found">>))
                       /\ Len(exec_out.calls) = k - 1
                       /\ DOMAIN variables = StoredBefore(k)

\* Paris was read and stored as temp1; the next step adds to ${total} and
\* stores its result as total: it failed as unbound and total was never bound
C30_Witness ==
    /\ RanMultiStep
    /\ RanSteps = <<S_PARIS, S_TWICE>>
    /\ exec_out.result = Failure(Words(<<"Variable '", "total", "' not found">>))
    /\ Len(exec_out.calls) = 1
    /\ DOMAIN variables = {"temp1"}


(***************************************************************************)
(* Properties of the plan a caller handed to MultiStepStrategy.execute     *)
(***************************************************************************)
\* the caller's plan is inside or past the loop of MultiStepStrategy.execute
Holds(t) == runs[t].pc # "idle"

\* the parameters the tool of call k of the caller received
Received(t, k) == runs[t].calls[k].parameters

\* C29: executing a multi-step plan never changes it: from the statement that
\* starts the execution to the return, successful or failed, every step of the
\* caller's plan keeps its original parameters, references included; the
\* resolved parameters exist only in the copy of the step that is executed.
C29_PlanNeverMutated ==
    [][\A t \in Threads : Holds(t) => runs'[t].plan = runs[t].plan]_vars

C29_Witness ==
    \E t \in Threads :
        /\ runs[t].pc = "done"
        /\ runs[t].plan.steps = <<S_PARIS, S_ADD>>
        /\ runs[t].result.success
        /\ Len(runs[t].calls) = 2
        /\ Received(t, 2) # S_ADD.parameters
        /\ \A i \in 1..Len(Received(t, 2)) : RefsOf(Received(t, 2)[i].value) = {}
        /\ "temp1" \in StepRefs(runs[t].plan.steps[2])


(***************************************************************************)
(* Properties of the parser's metadata                                     *)
(***************************************************************************)
\* the position of the recognizer whose parse output process returned, or one
\* past the list when process built the fallback plan
Producer ==
    IF \E i \in Positions : DidParse(i)
    THEN CHOOSE i \in Positions : DidParse(i) /\ \A j \in 1..(i - 1) : ~DidParse(j)
    ELSE Len(CalledList) + 1

\* the recognizers process called matches on, in the order it called them
Attempted == SubSeq(CalledList, 1, IF Producer > Len(CalledList) THEN Len(CalledList) ELSE Producer)

TriedNames == [k \in 1..Len(parse_out.metadata.patterns_tried) |-> parse_out.metadata.patterns_tried[k].name]

\* C28 as stated: for each call that returns a plan, the metadata lists every
\* recognizer that was attempted before the plan was produced, and names the
\* recognizer that produced it, 'fallback' when none did.
C28_MetadataListsEveryAttempt ==
    (CalledWithQuery /\ parse_out.success) =>
        /\ TriedNames = [k \in 1..Len(Attempted) |-> Attempted[k].name]
        /\ parse_out.metadata.matched_pattern =
               IF Producer > Len(CalledList) THEN "fallback" ELSE CalledList[Producer].name


(***************************************************************************)
(* Properties of _format_result                                            *)
(***************************************************************************)
\* what the first step's tool operation handed back to the strategy
FirstRaw == ExecuteStep(exec_in.tool_adapters, exec_in.variables, RanSteps[1])
RanFirstStep == RanSingleTool /\ RanSteps # <<>> /\ ~FirstRaw.raised

\* C27 as stated: the single-tool strategy formats the first step's raw
\* result by shape: a dual-typed value renders as its display field, a number
\* and any other value by generic string conversion with nothing appended,
\* whichever tool produced it.
C27_FormattedByShape ==
    RanFirstStep =>
        /\ exec_out.result.success
        /\ exec_out.result.data =
               IF IsDual(FirstRaw.value) THEN FirstRaw.value.display
               ELSE Str(PyStr(FirstRaw.value))

\* C27, amended: the single-tool strategy formats the first step's raw result
\* by tool and shape: a result of the weather tool renders as its display
\* field when it is dual-typed and by generic string conversion followed by
\* "°C" when it is not; a result of any other tool, a number or a dual-typed
\* value included, renders by generic string conversion with nothing appended.
C27_FormattedByToolAndShape ==
    RanFirstStep =>
        /\ exec_out.result.success
        /\ (RanSteps[1].tool = "weather" /\ IsDual(FirstRaw.value))
               => exec_out.result.data = FirstRaw.value.display
        /\ (RanSteps[1].tool = "weather" /\ ~IsDual(FirstRaw.value))
               => exec_out.result.data = Str(PyStr(FirstRaw.value) \o <<DEGREES>>)
        /\ RanSteps[1].tool # "weather"
               => exec_out.result.data = Str(PyStr(FirstRaw.value))

C27_Witness ==
    /\ RanFirstStep
    /\ RanPlan = WeatherPlan("paris")
    /\ exec_in.tool_adapters["weather"].class = "StandardToolAdapter"
    /\ FirstRaw.value = Str(<<IntDigits(1800), DEGREES>>)
    /\ exec_out.result.data = Str(<<IntDigits(1800), DEGREES, DEGREES>>)


(***************************************************************************)
(* Properties of the plans of the built-in recognizers                     *)
(***************************************************************************)
RanBuiltinMultiStep == RanMultiStep /\ RanPlan \in BuiltinMultiStepPlans

\* the engine's answer is the failure of a reference that nothing binds
UnboundReferenceFailure ==
    /\ ~exec_out.result.success
    /\ Len(exec_out.result.error_message) = 4
    /\ exec_out.result.error_message[2] = Lit("Variable '")
    /\ exec_out.result.error_message[4] = Lit("' not found")

\* C24: in every multi-step plan that the built-in recognizers emit, each
\* reference in a step's parameters names the result binding declared by a
\* strictly earlier step of the same plan, and executing such a plan never
\* fails with an unbound reference, whatever the tools return or raise.
C24_ReferencesNameEarlierBindings ==
    RanBuiltinMultiStep =>
        /\ \A k \in 1..Len(RanSteps) : StepRefs(RanSteps[k]) \subseteq StoredBefore(k)
        /\ ~UnboundReferenceFailure

C24_Witness ==
    /\ RanBuiltinMultiStep
    /\ RanPlan = MultiStepParse("math_avg_temp",
                     [operation_word |-> "add", value |-> 1000, city1 |-> "paris",
                      city2 |-> "london", num1 |-> 10000, num2 |-> 20000,
                      from_currency |-> "USD", to_currency |-> "EUR", word_count |-> 5,
                      temp_value |-> 1800])
    /\ exec_in.tool_adapters = DefaultToolAdapters
    /\ exec_out.result.success
    /\ exec_out.result.data = Str(<<Digits(2750), DEGREES>>)
    /\ Len(exec_out.calls) = 4
    /\ exec_out.calls[3].parameters = <<Param("numbers", List(<<Num(1800), Num(1700)>>))>>
    /\ exec_out.calls[4].parameters[1] = Param("first_number", Num(1750))

====
